---- MODULE Spec2Model ----
(***************************************************************************)
(* Model of the ADCMT 7351 controller: the sequence counter, the packet    *)
(* codec, and the device session over the USB transport session.           *)
(*                                                                         *)
(* Bytes are naturals in 0..255, byte strings are sequences of bytes, and  *)
(* a Rust `&str` / `String` is the sequence of its UTF-8 bytes.            *)
(***************************************************************************)
EXTENDS Integers, Sequences, FiniteSets, TLC

VARIABLES
    \* ---- a stand-alone SequenceCounter object (protocol/sequence.rs)
    counter,      \* SequenceCounter.counter : Cell<u8>
    calls,        \* number of next() and increment() calls made on it since new()
    onlyNext,     \* whether every one of those calls was a next()
    returned,     \* value returned by the most recent call (NoValue: none / unit)
    \* ---- one application of a Packet codec function (protocol/packet.rs)
    input,        \* the arguments of the call
    output,       \* its return value, once the call has been made
    \* ---- an opened Device session (device/operations/base.rs)
    sequence,     \* Device.sequence.counter
    endpoints,    \* Device.usb_device.endpoints
    timeout,      \* Device.usb_device.timeout, in milliseconds
    call,         \* the most recent call on the session and the counter it found
    events,       \* what that call did on the USB handle and the clock, in order
    result,       \* what that call returned
    \* ---- the physical device and the sessions opened on it
    descriptors,  \* what the device reports as its configuration 0
    claimed,      \* whether interface 0 of the device is claimed by a handle
    live,         \* number of sessions that open returned and nobody dropped yet
    opens,        \* number of sessions open has returned so far
    \* ---- the wire, as seen from the device
    sent          \* sequence byte of the packet the live Device session handed
                  \* to the transport last (0: none yet; NoValue: not recorded)

seqVars   == <<counter, calls, onlyNext, returned>>
codecVars == <<input, output>>
devVars   == <<sequence, endpoints, timeout, call, events, result,
               descriptors, claimed, live, opens, sent>>
vars      == <<counter, calls, onlyNext, returned, input, output,
               sequence, endpoints, timeout, call, events, result,
               descriptors, claimed, live, opens, sent>>

(***************************************************************************)
(* Bounds of the model                                                     *)
(***************************************************************************)
\* calls made on the stand-alone counter (more than one full cycle of 255)
MaxCalls == 258
\* longest command handed to encode_write (beyond MAX_CMD_LEN + 1)
MaxInputLen == 66
\* longest payload behind a response header handed to decode_read
MaxPayload == 4
\* longest unframed buffer handed to decode_read
MaxRaw == 4
\* most endpoint descriptors an interface lists
MaxEndpoints == 3
\* most sessions opened on the device over its life
MaxOpens == 2
\* a session starts no operation that sends a packet once its sequence
\* counter has reached this value
MaxSessionSeq == 2

(***************************************************************************)
(* protocol/mod.rs                                                         *)
(***************************************************************************)
MAX_CMD_LEN == 64

(***************************************************************************)
(* protocol/sequence.rs                                                    *)
(***************************************************************************)
NoValue == -1

\* u8::wrapping_add(1)
WrappingAdd1(n) == (n + 1) % 256

\* next() without the skip of 0 on wraparound
NextValue_NoSkip(current) ==
    IF current = 0 THEN 1 ELSE WrappingAdd1(current)

\* the value next() computes from the stored counter (lines 21-31)
NextValue(current) ==
    IF current = 0
    THEN 1
    ELSE LET n == WrappingAdd1(current)
         IN  IF n = 0 THEN 1 ELSE n

\* increment() without the skip of 0 on wraparound
IncrementValue_NoSkip(current) ==
    IF current = 0 THEN 1 ELSE WrappingAdd1(current)

\* the value increment() computes from the stored counter (lines 38-44)
IncrementValue(current) ==
    IF current = 0
    THEN 1
    ELSE LET n == WrappingAdd1(current)
         IN  IF n = 0 THEN 1 ELSE n

\* SequenceCounter::new()
SeqNew ==
    /\ counter = 0
    /\ calls = 0
    /\ onlyNext = TRUE
    /\ returned = NoValue

\* SequenceCounter::next(): store the next value and return it
SeqNext ==
    /\ calls < MaxCalls
    /\ LET next == NextValue(counter)
       IN  /\ counter' = next
           /\ returned' = next
    /\ calls' = calls + 1
    /\ UNCHANGED onlyNext

\* SequenceCounter::increment(): store the next value, return nothing
SeqIncrement ==
    /\ calls < MaxCalls
    /\ counter' = IncrementValue(counter)
    /\ returned' = NoValue
    /\ calls' = calls + 1
    /\ onlyNext' = FALSE

(***************************************************************************)
(* protocol/packet.rs                                                      *)
(***************************************************************************)
\* anyhow::Result<Vec<u8>>
OkBytes(b)  == [ok |-> TRUE,  bytes |-> b,    err |-> ""]
ErrMsg(msg) == [ok |-> FALSE, bytes |-> <<>>, err |-> msg]

\* the mask that keeps the two low bits: no rounding to a multiple of 4
AndFFFFFFFC_KeepLow(x) == x % 1073741824

\* x & 0xFFFFFFFC: bits 2..31 of x, i.e. ((x >> 2) mod 2^30) << 2
AndFFFFFFFC(x) == ((x \div 4) % 1073741824) * 4

\* u32::to_le_bytes
ToLeBytes(v) ==
    << v % 256, (v \div 256) % 256, (v \div 65536) % 256, (v \div 16777216) % 256 >>

\* u32::from_le_bytes(..) as usize, kept as its two 16-bit halves: the value is
\* hi * 65536 + lo and may exceed the 32-bit integers of TLC
FromLeBytes(b) == [lo |-> b[1] + 256 * b[2], hi |-> b[3] + 256 * b[4]]

\* v > 0 and v < n, for a value v in halves and a usize n
GtZero(v)      == v.hi > 0 \/ v.lo > 0
LessThan(v, n) ==
    \/ v.hi < n \div 65536
    \/ v.hi = n \div 65536 /\ v.lo < n % 65536
\* the usize itself
AsUsize(v) == v.hi * 65536 + v.lo

\* the sequence byte and its complement in each other's place
LowerHeader_Swapped(seqno, opcode) ==
    (seqno % 256) * 65536 + ((255 - seqno) % 256) * 256 + opcode

\* ((!sequence as u32 & 0xFF) << 16) | ((sequence as u32 & 0xFF) << 8) | opcode
\* (!sequence is the u8 complement 255 - sequence; the three fields occupy
\* disjoint bits, so the bitwise or is their sum)
LowerHeader(seqno, opcode) ==
    ((255 - seqno) % 256) * 65536 + (seqno % 256) * 256 + opcode

\* the length check with the limit off by one
CommandError_OffByOne(command_str) ==
    IF Len(command_str) >= MAX_CMD_LEN
    THEN "Command too long"
    ELSE IF Len(command_str) = 0
    THEN "Command cannot be empty"
    ELSE ""

\* the two bail! checks of encode_write: the error message, "" when it passes
CommandError(command_str) ==
    IF Len(command_str) > MAX_CMD_LEN
    THEN "Command too long"
    ELSE IF Len(command_str) = 0
    THEN "Command cannot be empty"
    ELSE ""

\* Packet::encode_write
EncodeWrite(command_str, seqno) ==
    IF CommandError(command_str) # ""
    THEN ErrMsg(CommandError(command_str))
    ELSE LET aligned_len  == AndFFFFFFFC(Len(command_str) + 1 + 3)
             lower_header == ToLeBytes(LowerHeader(seqno, 1))
             upper_header == ToLeBytes(aligned_len)
             total_size   == 12 + aligned_len
             n            == Len(command_str)
         IN  OkBytes([i \in 1..total_size |->
                 IF i <= 4 THEN lower_header[i]
                 ELSE IF i <= 8 THEN upper_header[i - 4]
                 ELSE IF i = 9 THEN 1
                 ELSE IF i <= 12 THEN 0
                 ELSE IF i <= 12 + n THEN command_str[i - 12]
                 ELSE IF i = 12 + n + 1 THEN 10
                 ELSE 0])

\* encode_read without the four payload bytes
EncodeRead_HeaderOnly(seqno) ==
    LET lower_header == ToLeBytes(LowerHeader(seqno, 2))
        upper_header == ToLeBytes(4)
    IN  [i \in 1..12 |->
            IF i <= 4 THEN lower_header[i]
            ELSE IF i <= 8 THEN upper_header[i - 4]
            ELSE 0]

\* Packet::encode_read
EncodeRead(seqno) ==
    LET aligned_len  == 4
        total_size   == 12 + aligned_len
        lower_header == ToLeBytes(LowerHeader(seqno, 2))
        upper_header == ToLeBytes(aligned_len)
    IN  [i \in 1..total_size |->
            IF i <= 4 THEN lower_header[i]
            ELSE IF i <= 8 THEN upper_header[i - 4]
            ELSE 0]

\* a strip that drops every CR and LF, the interior ones too
StripTrailingCrLf_Everywhere(data) ==
    SelectSeq(data, LAMBDA b : b # 13 /\ b # 10)

\* the `while let Some(&b) = data.last()` loop of decode_read
RECURSIVE StripTrailingCrLf(_)
StripTrailingCrLf(data) ==
    IF data = <<>>
    THEN data
    ELSE LET b == data[Len(data)]
         IN  IF b = 13 \/ b = 10
             THEN StripTrailingCrLf(SubSeq(data, 1, Len(data) - 1))
             ELSE data

\* the selection as min(declared, remainder), a declared 0 not excepted
DataSlice_Min(buffer) ==
    IF Len(buffer) >= 12 /\ buffer[1] = 2
    THEN LET response_data_len == FromLeBytes(SubSeq(buffer, 5, 8))
             remainder         == Len(buffer) - 12
         IN  [data_start |-> 12,
              data_size  |-> IF LessThan(response_data_len, remainder)
                             THEN AsUsize(response_data_len)
                             ELSE remainder]
    ELSE [data_start |-> 0, data_size |-> Len(buffer)]

\* the selection without the look at the first byte
DataSlice_AnyOpcode(buffer) ==
    IF Len(buffer) >= 12
    THEN LET response_data_len == FromLeBytes(SubSeq(buffer, 5, 8))
             remainder         == Len(buffer) - 12
         IN  [data_start |-> 12,
              data_size  |-> IF GtZero(response_data_len)
                                /\ LessThan(response_data_len, remainder)
                             THEN AsUsize(response_data_len)
                             ELSE remainder]
    ELSE [data_start |-> 0, data_size |-> Len(buffer)]

\* the (data_start, data_size) selection of decode_read (lines 84-100)
DataSlice(buffer) ==
    IF Len(buffer) >= 12 /\ buffer[1] = 2
    THEN LET response_data_len == FromLeBytes(SubSeq(buffer, 5, 8))
             remainder         == Len(buffer) - 12
         IN  [data_start |-> 12,
              data_size  |-> IF GtZero(response_data_len)
                                /\ LessThan(response_data_len, remainder)
                             THEN AsUsize(response_data_len)
                             ELSE remainder]
    ELSE [data_start |-> 0, data_size |-> Len(buffer)]

\* a decode that refuses what is shorter than a header
DecodeRead_RejectsShort(buffer) ==
    IF Len(buffer) < 12
    THEN ErrMsg("Response shorter than the packet header")
    ELSE LET s    == DataSlice(buffer)
             data == SubSeq(buffer, s.data_start + 1, s.data_start + s.data_size)
         IN  OkBytes(StripTrailingCrLf(data))

\* Packet::decode_read
DecodeRead(buffer) ==
    IF buffer = <<>>
    THEN OkBytes(<<>>)
    ELSE LET s    == DataSlice(buffer)
             data == SubSeq(buffer, s.data_start + 1, s.data_start + s.data_size)
         IN  OkBytes(StripTrailingCrLf(data))

(***************************************************************************)
(* Inputs of the codec functions                                           *)
(***************************************************************************)
\* the byte strings over S of length at most n
RECURSIVE SeqsUpTo(_, _)
SeqsUpTo(S, n) ==
    IF n = 0
    THEN {<<>>}
    ELSE LET shorter == SeqsUpTo(S, n - 1)
         IN  shorter \cup {Append(p, b) : p \in shorter, b \in S}

\* the command of n bytes that repeats `fill`
CommandOfLen(n, fill) == [i \in 1..n |-> fill[((i - 1) % Len(fill)) + 1]]

\* "*RST" repeated, and a fill holding a line feed and a NUL byte
CommandFills == { <<42, 82, 83, 84>>, <<10, 0, 63>> }

CodecCommands == {CommandOfLen(n, f) : n \in 0..MaxInputLen, f \in CommandFills}

SequenceBytes == 0..255

\* '4', CR, LF, NUL
PayloadBytes == {52, 13, 10, 0}

\* declared payload length fields: the lengths around the payload sizes, one
\* with only a higher byte set, and the largest u32
DeclaredLens ==
    {ToLeBytes(d) : d \in 0..(MaxPayload + 1)}
    \cup { <<0, 1, 0, 0>>, <<0, 0, 0, 1>>, <<255, 255, 255, 255>> }

\* a 12-byte header as the instrument sends it: first byte, sequence 1 and
\* its complement, the declared length, four suffix bytes
ResponseHeader(b0, declared) == <<b0, 1, 254, 0>> \o declared \o <<0, 0, 0, 0>>

FramedBuffers ==
    {ResponseHeader(b0, d) \o p :
        b0 \in {2, 1, 52}, d \in DeclaredLens, p \in SeqsUpTo(PayloadBytes, MaxPayload)}

\* short buffers, and headers cut short of 12 bytes
RawBuffers ==
    SeqsUpTo(PayloadBytes \cup {2}, MaxRaw)
    \cup {SubSeq(ResponseHeader(2, d), 1, k) : d \in {ToLeBytes(0), ToLeBytes(2)}, k \in 5..11}

\* the documented scenario: declared length 2 over "4.2\r\n"
ExampleBuffer == <<2, 0, 0, 0, 2, 0, 0, 0, 0, 0, 0, 0, 52, 46, 50, 13, 10>>

DecodeBuffers == FramedBuffers \cup RawBuffers \cup {ExampleBuffer}

EncodeWriteInput(c, s) == [fn |-> "encode_write", bytes |-> c, seq |-> s]
EncodeReadInput(s)     == [fn |-> "encode_read", bytes |-> <<>>, seq |-> s]
DecodeReadInput(b)     == [fn |-> "decode_read", bytes |-> b, seq |-> 0]

NoInput  == [fn |-> "none", bytes |-> <<>>, seq |-> 0]
NoOutput == [done |-> FALSE, ok |-> FALSE, bytes |-> <<>>, err |-> ""]
Returned(r) == [done |-> TRUE, ok |-> r.ok, bytes |-> r.bytes, err |-> r.err]

\* the arguments of one codec call are chosen; the call has not been made
CodecInit ==
    /\ \/ \E c \in CodecCommands, s \in SequenceBytes : input = EncodeWriteInput(c, s)
       \/ \E s \in SequenceBytes : input = EncodeReadInput(s)
       \/ \E b \in DecodeBuffers : input = DecodeReadInput(b)
    /\ output = NoOutput

CallEncodeWrite ==
    /\ input.fn = "encode_write"
    /\ ~output.done
    /\ output' = Returned(EncodeWrite(input.bytes, input.seq))
    /\ UNCHANGED input

CallEncodeRead ==
    /\ input.fn = "encode_read"
    /\ ~output.done
    /\ output' = Returned(OkBytes(EncodeRead(input.seq)))
    /\ UNCHANGED input

CallDecodeRead ==
    /\ input.fn = "decode_read"
    /\ ~output.done
    /\ output' = Returned(DecodeRead(input.bytes))
    /\ UNCHANGED input

(***************************************************************************)
(* transport/usb_device.rs: the operations of an opened UsbDevice.  The    *)
(* outcome of each transfer on the USB handle is the environment's choice. *)
(***************************************************************************)
\* what the handle did and how long the thread slept, one record per step
TransferOut(kind, addr, data, tmo, o) ==
    [ev |-> "write", kind |-> kind, addr |-> addr, value |-> 0, index |-> 0,
     data |-> data, cap |-> Len(data), dur |-> tmo, ok |-> o.ok, err |-> o.err]
TransferIn(kind, addr, cap, tmo, o) ==
    [ev |-> "read", kind |-> kind, addr |-> addr, value |-> 0, index |-> 0,
     data |-> o.data, cap |-> cap, dur |-> tmo, ok |-> o.ok, err |-> o.err]
Sleep(ms) ==
    [ev |-> "sleep", kind |-> "", addr |-> 0, value |-> 0, index |-> 0,
     data |-> <<>>, cap |-> 0, dur |-> ms, ok |-> TRUE, err |-> ""]

\* anyhow::Result<usize>; err is the context chain, outermost first
OkCount(n)     == [ok |-> TRUE,  n |-> n, err |-> <<>>]
ErrCount(chain) == [ok |-> FALSE, n |-> 0, err |-> chain]

\* every transfer made as a bulk transfer
TransferKind_AlwaysBulk(type) == "bulk"

\* write_interrupt / write_bulk, chosen by the endpoint's transfer type
TransferKind(type) == IF type = "Interrupt" THEN "interrupt" ELSE "bulk"

\* a write that takes its pause out of the timeout: none under one second
UsbWrite_PauseByTimeout(dev, data, o) ==
    LET xfer == TransferOut(TransferKind(dev.endpoints.write_type),
                            dev.endpoints.write_addr, data, dev.timeout, o)
    IN  IF ~o.ok
        THEN [events |-> <<xfer>>,
              ret    |-> ErrCount(<<"Failed to write data to device", o.err>>)]
        ELSE [events |-> IF dev.timeout < 1000 THEN <<xfer>> ELSE <<xfer, Sleep(20)>>,
              ret    |-> OkCount(Len(data))]

\* a write that always waits the default 5 seconds
UsbWrite_DefaultTimeout(dev, data, o) ==
    LET xfer == TransferOut(TransferKind(dev.endpoints.write_type),
                            dev.endpoints.write_addr, data, 5000, o)
    IN  IF ~o.ok
        THEN [events |-> <<xfer>>,
              ret    |-> ErrCount(<<"Failed to write data to device", o.err>>)]
        ELSE [events |-> <<xfer, Sleep(20)>>,
              ret    |-> OkCount(Len(data))]

\* UsbDevice::write: the transfer, then the 20 ms pause on success
UsbWrite(dev, data, o) ==
    LET xfer == TransferOut(TransferKind(dev.endpoints.write_type),
                            dev.endpoints.write_addr, data, dev.timeout, o)
    IN  IF ~o.ok
        THEN [events |-> <<xfer>>,
              ret    |-> ErrCount(<<"Failed to write data to device", o.err>>)]
        ELSE [events |-> <<xfer, Sleep(20)>>,
              ret    |-> OkCount(Len(data))]

\* UsbDevice::read: one transfer into the caller's buffer
UsbRead(dev, cap, o) ==
    LET xfer == TransferIn(TransferKind(dev.endpoints.read_type),
                           dev.endpoints.read_addr, cap, dev.timeout, o)
    IN  IF ~o.ok
        THEN [events |-> <<xfer>>,
              ret    |-> ErrCount(<<"Failed to read data from device", o.err>>)]
        ELSE [events |-> <<xfer>>,
              ret    |-> OkCount(Len(o.data))]

(***************************************************************************)
(* device/operations/base.rs                                               *)
(***************************************************************************)
\* anyhow::Result<()>, Result<String> and Result<u8 / u16 / Duration>: the
\* text or the number returned; for an error the context chain, outermost
\* first, and the values formatted into its messages
OkUnit       == [ok |-> TRUE,  text |-> <<>>, value |-> 0, err |-> <<>>, args |-> <<>>]
OkText(t)    == [ok |-> TRUE,  text |-> t,    value |-> 0, err |-> <<>>, args |-> <<>>]
OkValue(v)   == [ok |-> TRUE,  text |-> <<>>, value |-> v, err |-> <<>>, args |-> <<>>]
Failed(chain) == [ok |-> FALSE, text |-> <<>>, value |-> 0, err |-> chain, args |-> <<>>]
FailedWith(chain, args) ==
    [ok |-> FALSE, text |-> <<>>, value |-> 0, err |-> chain, args |-> args]

\* String::from_utf8 accepts exactly the well-formed UTF-8 byte strings.
\* A continuation byte is one in 0x80..0xBF; every other byte starts a character.
IsContinuation(b) == b >= 128 /\ b <= 191

\* the length of the well-formed character that starts at v[i], or 0 if none does
CharLen(v, i) ==
    LET first         == v[i]
        In(k, lo, hi) == k <= Len(v) /\ v[k] >= lo /\ v[k] <= hi
        Cont(k)       == In(k, 128, 191)
    IN  IF first < 128 THEN 1
        ELSE IF first >= 194 /\ first <= 223
             THEN IF Cont(i + 1) THEN 2 ELSE 0
        ELSE IF first = 224
             THEN IF In(i + 1, 160, 191) /\ Cont(i + 2) THEN 3 ELSE 0
        ELSE IF (first >= 225 /\ first <= 236) \/ first = 238 \/ first = 239
             THEN IF Cont(i + 1) /\ Cont(i + 2) THEN 3 ELSE 0
        ELSE IF first = 237
             THEN IF In(i + 1, 128, 159) /\ Cont(i + 2) THEN 3 ELSE 0
        ELSE IF first = 240
             THEN IF In(i + 1, 144, 191) /\ Cont(i + 2) /\ Cont(i + 3) THEN 4 ELSE 0
        ELSE IF first >= 241 /\ first <= 243
             THEN IF Cont(i + 1) /\ Cont(i + 2) /\ Cont(i + 3) THEN 4 ELSE 0
        ELSE IF first = 244
             THEN IF In(i + 1, 128, 143) /\ Cont(i + 2) /\ Cont(i + 3) THEN 4 ELSE 0
        ELSE 0

\* every starting byte starts a well-formed character, and every continuation
\* byte lies inside the character started at most three bytes before it
Utf8Valid(v) ==
    \A i \in 1..Len(v) :
        IF IsContinuation(v[i])
        THEN \E j \in 1..3 :
                /\ i - j >= 1
                /\ ~IsContinuation(v[i - j])
                /\ CharLen(v, i - j) > j
        ELSE CharLen(v, i) > 0

FromUtf8(bytes) ==
    IF Utf8Valid(bytes)
    THEN OkText(bytes)
    ELSE Failed(<<"Response contains invalid UTF-8 character", "FromUtf8Error">>)

\* vec![0u8; n]
Zeros(n) == [i \in 1..n |-> 0]

\* the session as the handlers see it
Dev == [sequence |-> sequence, endpoints |-> endpoints, timeout |-> timeout]

\* Device::write framing with the counter's value before it advanced
DeviceWrite_StaleSequence(dev, command, wo) ==
    LET seqno  == NextValue(dev.sequence)
        packet == EncodeWrite(command, dev.sequence)
    IN  IF ~packet.ok
        THEN [sequence |-> seqno, events |-> <<>>,
              ret |-> Failed(<<"Failed to encode write packet", packet.err>>)]
        ELSE LET w == UsbWrite(dev, packet.bytes, wo)
             IN  IF ~w.ret.ok
                 THEN [sequence |-> seqno, events |-> w.events,
                       ret |-> Failed(<<"Failed to write command to current device">>
                                      \o w.ret.err)]
                 ELSE [sequence |-> seqno, events |-> w.events, ret |-> OkUnit]

\* a write that takes its sequence value only once the command has encoded
DeviceWrite_TakesAfterEncode(dev, command, wo) ==
    LET seqno  == NextValue(dev.sequence)
        packet == EncodeWrite(command, seqno)
    IN  IF ~packet.ok
        THEN [sequence |-> dev.sequence, events |-> <<>>,
              ret |-> Failed(<<"Failed to encode write packet", packet.err>>)]
        ELSE LET w == UsbWrite(dev, packet.bytes, wo)
             IN  IF ~w.ret.ok
                 THEN [sequence |-> seqno, events |-> w.events,
                       ret |-> Failed(<<"Failed to write command to current device">>
                                      \o w.ret.err)]
                 ELSE [sequence |-> seqno, events |-> w.events, ret |-> OkUnit]

\* Device::write, given the outcome of the transfer it may start
DeviceWrite(dev, command, wo) ==
    LET seqno  == NextValue(dev.sequence)
        packet == EncodeWrite(command, seqno)
    IN  IF ~packet.ok
        THEN [sequence |-> seqno, events |-> <<>>,
              ret |-> Failed(<<"Failed to encode write packet", packet.err>>)]
        ELSE LET w == UsbWrite(dev, packet.bytes, wo)
             IN  IF ~w.ret.ok
                 THEN [sequence |-> seqno, events |-> w.events,
                       ret |-> Failed(<<"Failed to write command to current device">>
                                      \o w.ret.err)]
                 ELSE [sequence |-> seqno, events |-> w.events, ret |-> OkUnit]

\* Device::read going on to the blocking read after a failed read request
DeviceRead_IgnoreSendFailure(dev, wo, ro) ==
    LET seqno        == NextValue(dev.sequence)
        read_request == EncodeRead(seqno)
        w            == UsbWrite(dev, read_request, wo)
        r            == UsbRead(dev, 128, ro)
        ev           == w.events \o <<Sleep(10)>> \o r.events
    IN  IF ~r.ret.ok
        THEN [sequence |-> seqno, events |-> ev,
              ret |-> Failed(<<"Failed to read from device">> \o r.ret.err)]
        ELSE [sequence |-> seqno, events |-> ev,
              ret |-> FromUtf8(DecodeRead(ro.data).bytes)]

\* a read that decodes the whole receive buffer, its zero tail included
DeviceRead_WholeBuffer(dev, wo, ro) ==
    LET seqno        == NextValue(dev.sequence)
        read_request == EncodeRead(seqno)
        w            == UsbWrite(dev, read_request, wo)
    IN  IF ~w.ret.ok
        THEN [sequence |-> seqno, events |-> w.events,
              ret |-> Failed(<<"Failed to send read request">> \o w.ret.err)]
        ELSE LET r == UsbRead(dev, 128, ro)
                 ev == w.events \o <<Sleep(10)>> \o r.events
             IN  IF ~r.ret.ok
                 THEN [sequence |-> seqno, events |-> ev,
                       ret |-> Failed(<<"Failed to read from device">> \o r.ret.err)]
                 ELSE LET buffer == ro.data \o Zeros(128 - Len(ro.data))
                      IN  [sequence |-> seqno, events |-> ev,
                           ret |-> FromUtf8(DecodeRead(buffer).bytes)]

\* Device::read, given the outcomes of the two transfers it may start
DeviceRead(dev, wo, ro) ==
    LET seqno        == NextValue(dev.sequence)
        read_request == EncodeRead(seqno)
        w            == UsbWrite(dev, read_request, wo)
    IN  IF ~w.ret.ok
        THEN [sequence |-> seqno, events |-> w.events,
              ret |-> Failed(<<"Failed to send read request">> \o w.ret.err)]
        ELSE LET r == UsbRead(dev, 128, ro)
                 ev == w.events \o <<Sleep(10)>> \o r.events
             IN  IF ~r.ret.ok
                 THEN [sequence |-> seqno, events |-> ev,
                       ret |-> Failed(<<"Failed to read from device">> \o r.ret.err)]
                 ELSE LET buffer      == ro.data \o Zeros(128 - Len(ro.data))
                          transferred == r.ret.n
                          decoded     == DecodeRead(SubSeq(buffer, 1, transferred))
                      IN  IF ~decoded.ok
                          THEN [sequence |-> seqno, events |-> ev,
                                ret |-> Failed(<<"Failed to decode read response",
                                                 decoded.err>>)]
                          ELSE [sequence |-> seqno, events |-> ev,
                                ret |-> FromUtf8(decoded.bytes)]

(***************************************************************************)
(* transport/usb_device.rs: opening and dropping a UsbDevice.  What the    *)
(* device, its handle and the host answer at each step is the              *)
(* environment's choice.                                                   *)
(***************************************************************************)
\* a step on the device or on its handle that moves no data
Step(ev, addr, o) ==
    [ev |-> ev, kind |-> "", addr |-> addr, value |-> 0, index |-> 0,
     data |-> <<>>, cap |-> 0, dur |-> 0, ok |-> o.ok, err |-> o.err]

\* DeviceHandle::read_control: an inbound control transfer of the given
\* request type into a buffer of `cap` bytes
ControlIn(kind, request, value, index, cap, tmo, o) ==
    [ev |-> "control", kind |-> kind, addr |-> request, value |-> value,
     index |-> index, data |-> o.data, cap |-> cap, dur |-> tmo,
     ok |-> o.ok, err |-> o.err]

NoEndpoints == [read_addr |-> 0, read_type |-> "", write_addr |-> 0, write_type |-> ""]

\* address & LIBUSB_ENDPOINT_DIR_MASK
Direction(address) == ((address \div 128) % 2) * 128
LIBUSB_ENDPOINT_IN == 128

\* a filter that lets every transfer type through
IsCandidate_AnyType(endpoint_type) == TRUE

\* matches!(endpoint_type, TransferType::Bulk | TransferType::Interrupt)
IsCandidate(endpoint_type) == endpoint_type \in {"Bulk", "Interrupt"}

\* the loop of get_endpoints over the endpoint descriptors still to visit;
\* an Option is the empty sequence or a sequence of one descriptor
RECURSIVE ScanEndpoints(_, _, _)
ScanEndpoints(eps, read_endpoint, write_endpoint) ==
    IF eps = <<>>
    THEN [read |-> read_endpoint, write |-> write_endpoint]
    ELSE LET d == Head(eps)
         IN  IF ~IsCandidate(d.type)
             THEN ScanEndpoints(Tail(eps), read_endpoint, write_endpoint)
             ELSE LET r == IF Direction(d.address) = LIBUSB_ENDPOINT_IN
                              /\ read_endpoint = <<>>
                           THEN <<d>> ELSE read_endpoint
                      w == IF Direction(d.address) # LIBUSB_ENDPOINT_IN
                              /\ write_endpoint = <<>>
                           THEN <<d>> ELSE write_endpoint
                  IN  IF r # <<>> /\ w # <<>>
                      THEN [read |-> r, write |-> w]
                      ELSE ScanEndpoints(Tail(eps), r, w)

\* anyhow::Result<UsbEndpoints>
OkEndpoints(e)     == [ok |-> TRUE,  endpoints |-> e, err |-> <<>>]
ErrEndpoints(chain) == [ok |-> FALSE, endpoints |-> NoEndpoints, err |-> chain]

\* UsbDevice::get_endpoints on what the device reports as configuration 0
GetEndpoints(desc) ==
    IF desc.config = "error"
    THEN ErrEndpoints(<<"Failed to get config descriptor", desc.err>>)
    ELSE IF desc.config = "no_interfaces"
    THEN ErrEndpoints(<<"No interfaces found">>)
    ELSE IF desc.config = "no_descriptors"
    THEN ErrEndpoints(<<"No interface descriptors found">>)
    ELSE LET found == ScanEndpoints(desc.eps, <<>>, <<>>)
         IN  IF found.read = <<>>
             THEN ErrEndpoints(<<"No suitable READ endpoint found">>)
             ELSE IF found.write = <<>>
             THEN ErrEndpoints(<<"No suitable WRITE endpoint found">>)
             ELSE OkEndpoints([read_addr  |-> found.read[1].address,
                               read_type  |-> found.read[1].type,
                               write_addr |-> found.write[1].address,
                               write_type |-> found.write[1].type])

\* the two control transfers going out whatever the first one answers
SendInitControlTransfers_Both(tmo, vo, ko) ==
    LET vendor == ControlIn("vendor", 245, 0, 0, 2, tmo, vo)
        class  == ControlIn("class", 160, 1, 0, 1, tmo, ko)
    IN  IF ~vo.ok
        THEN [events |-> <<vendor, class>>,
              ret |-> Failed(<<"Failed to send vendor control transfer", vo.err>>)]
        ELSE IF ~ko.ok
        THEN [events |-> <<vendor, class>>,
              ret |-> Failed(<<"Failed to send class control transfer", ko.err>>)]
        ELSE [events |-> <<vendor, class>>, ret |-> OkUnit]

\* UsbDevice::send_init_control_transfers: the vendor request 0xF5, then the
\* class request 0xA0
SendInitControlTransfers(tmo, vo, ko) ==
    LET vendor == ControlIn("vendor", 245, 0, 0, 2, tmo, vo)
        class  == ControlIn("class", 160, 1, 0, 1, tmo, ko)
    IN  IF ~vo.ok
        THEN [events |-> <<vendor>>,
              ret |-> Failed(<<"Failed to send vendor control transfer", vo.err>>)]
        ELSE IF ~ko.ok
        THEN [events |-> <<vendor, class>>,
              ret |-> Failed(<<"Failed to send class control transfer", ko.err>>)]
        ELSE [events |-> <<vendor, class>>, ret |-> OkUnit]

\* a handle going out of scope that only closes
HandleDrop_KeepsClaim(holds, isClaimed) ==
    [events |-> <<Step("close", 0, [ok |-> TRUE, err |-> ""])>>, claimed |-> isClaimed]

\* the DeviceHandle going out of scope: it releases the interfaces it still
\* holds and closes; `holds` says whether it holds interface 0
HandleDrop(holds, isClaimed) ==
    [events |-> <<Step("close", 0, [ok |-> TRUE, err |-> ""])>>,
     claimed |-> IF holds THEN FALSE ELSE isClaimed]

\* a drop that leaves the release to the handle
UsbDrop_NoRelease(ro) ==
    LET h == HandleDrop(TRUE, TRUE)
    IN  [events |-> h.events, claimed |-> h.claimed]

\* Drop for UsbDevice: release_interface(0), its outcome discarded, then the
\* handle field goes out of scope
UsbDrop(ro) ==
    LET release == Step("release", 0, ro)
        h       == HandleDrop(~ro.ok, ~ro.ok)
    IN  [events |-> <<release>> \o h.events, claimed |-> h.claimed]

\* the session UsbDevice::open returns, or none
OpenFailed(ev, isClaimed, chain) ==
    [ok |-> FALSE, endpoints |-> NoEndpoints, timeout |-> 0, events |-> ev,
     claimed |-> isClaimed, ret |-> Failed(chain)]

\* UsbDevice::open from get_endpoints on: the handle holds interface 0
OpenClaimed(desc, vo, ko, ro) ==
    LET found == GetEndpoints(desc)
        discover == Step("discover", 0, [ok |-> found.ok, err |-> ""])
    IN  IF ~found.ok
        THEN LET h == HandleDrop(TRUE, TRUE)
             IN  OpenFailed(<<discover>> \o h.events, h.claimed,
                            <<"Failed to get USB endpoints for given device">>
                            \o found.err)
        ELSE LET init == SendInitControlTransfers(5000, vo, ko)
             IN  IF ~init.ret.ok
                 THEN LET d == UsbDrop(ro)
                      IN  OpenFailed(<<discover>> \o init.events \o d.events,
                                     d.claimed,
                                     <<"Failed to initialize device">>
                                     \o init.ret.err)
                 ELSE [ok |-> TRUE, endpoints |-> found.endpoints,
                       timeout |-> 5000,
                       events |-> <<discover>> \o init.events \o <<Sleep(100)>>,
                       claimed |-> TRUE, ret |-> OkUnit]

\* UsbDevice::open, given what each step it reaches answers
UsbOpen(desc, isClaimed, oo, co, vo, ko, ro) ==
    IF ~oo.ok
    THEN OpenFailed(<<Step("open", 0, oo)>>, isClaimed,
                    <<"Failed to open given USB device", oo.err>>)
    ELSE IF ~co.ok
    THEN LET h == HandleDrop(FALSE, isClaimed)
         IN  OpenFailed(<<Step("open", 0, oo), Step("claim", 0, co)>> \o h.events,
                        h.claimed,
                        <<"Failed to claim primary interface for given USB device",
                          co.err>>)
    ELSE LET rest == OpenClaimed(desc, vo, ko, ro)
         IN  [rest EXCEPT !.events = <<Step("open", 0, oo), Step("claim", 0, co)>> \o @]

\* Device::open: the transport's session with a fresh sequence counter
DeviceOpen(desc, isClaimed, oo, co, vo, ko, ro) ==
    LET usb_device == UsbOpen(desc, isClaimed, oo, co, vo, ko, ro)
    IN  IF ~usb_device.ok
        THEN [usb_device EXCEPT
                 !.ret = Failed(<<"Failed to open USB device">> \o @.err)]
             @@ [sequence |-> NoValue]
        ELSE usb_device @@ [sequence |-> 0]

\* a Device going out of scope drops its UsbDevice
DeviceDrop(ro) == UsbDrop(ro)

(***************************************************************************)
(* The environment of a Device session: the commands the caller passes and *)
(* what the USB handle answers.                                            *)
(***************************************************************************)
\* "", "INI", "*RST", and commands of MAX_CMD_LEN and MAX_CMD_LEN + 1 bytes
DevCommands ==
    { <<>>, <<73, 78, 73>>, <<42, 82, 83, 84>>,
      CommandOfLen(MAX_CMD_LEN, <<42, 82, 83, 84>>),
      CommandOfLen(MAX_CMD_LEN + 1, <<42, 82, 83, 84>>) }

TransferErrors == {"Timeout", "NoDevice"}

WriteOutcomes ==
    {[ok |-> TRUE, err |-> ""]} \cup {[ok |-> FALSE, err |-> e] : e \in TransferErrors}

\* what the instrument may deliver to one blocking read (at most 128 bytes)
Responses ==
    { <<>>,
      <<49, 48, 48, 13, 10>>,
      ResponseHeader(2, ToLeBytes(8)) \o <<83, 80, 78, 49, 48, 48, 13, 10>>,
      ResponseHeader(2, ToLeBytes(0)) \o <<57, 57, 10>>,
      ExampleBuffer,
      <<255, 13, 10>>,
      ResponseHeader(2, ToLeBytes(2)) \o <<52, 128>>,
      <<195, 169>>,
      ResponseHeader(2, ToLeBytes(116)) \o [i \in 1..116 |-> 52] }

ReadOutcomes ==
    {[ok |-> TRUE, data |-> d, err |-> ""] : d \in Responses}
    \cup {[ok |-> FALSE, data |-> <<>>, err |-> e] : e \in TransferErrors}

\* no blocking read is started
NoRead == [ok |-> FALSE, data |-> <<>>, err |-> ""]

\* the endpoints discovery may have found: each direction of either type
EndpointSets ==
    { [read_addr |-> 129, read_type |-> "Bulk", write_addr |-> 2, write_type |-> "Interrupt"],
      [read_addr |-> 129, read_type |-> "Interrupt", write_addr |-> 2, write_type |-> "Bulk"] }

\* the call just made: the method, its command or number argument, and the
\* sequence counter it found
Call(op, command, arg) == [op |-> op, command |-> command, arg |-> arg, seq0 |-> sequence]

NoCall   == [op |-> "none", command |-> <<>>, arg |-> 0, seq0 |-> 0]
NoResult == OkUnit

\* no configuration is looked at
NoDescriptors == [config |-> "none", err |-> "", eps |-> <<>>]

\* one session is open on the device and holds its interface
OneSession ==
    /\ descriptors = NoDescriptors
    /\ claimed = TRUE
    /\ live = 1
    /\ opens = 1

\* the session Device::open returns: a fresh counter, the discovered
\* endpoints, the default timeout of 5 seconds
DevInit ==
    /\ sequence = 0
    /\ endpoints \in EndpointSets
    /\ timeout = 5000
    /\ call = NoCall
    /\ events = <<>>
    /\ result = NoResult
    /\ OneSession

\* a call of Device::write
DevWrite ==
    \E command \in DevCommands, wo \in WriteOutcomes :
        LET r == DeviceWrite(Dev, command, wo)
        IN  /\ sequence' = r.sequence
            /\ events' = r.events
            /\ result' = r.ret
            /\ call' = Call("write", command, 0)
            /\ UNCHANGED <<endpoints, timeout, descriptors, claimed, live, opens, sent>>

\* a call of Device::read
DevRead ==
    \E wo \in WriteOutcomes :
    \E ro \in (IF wo.ok THEN ReadOutcomes ELSE {NoRead}) :
        LET r == DeviceRead(Dev, wo, ro)
        IN  /\ sequence' = r.sequence
            /\ events' = r.events
            /\ result' = r.ret
            /\ call' = Call("read", <<>>, 0)
            /\ UNCHANGED <<endpoints, timeout, descriptors, claimed, live, opens, sent>>

(***************************************************************************)
(* transport/usb_device.rs and device/operations/base.rs: the timeout,    *)
(* clearing halts, the status byte.                                        *)
(***************************************************************************)
\* UsbDevice::set_timeout and UsbDevice::timeout
UsbSetTimeout(dev, tmo) == [dev EXCEPT !.timeout = tmo]
UsbTimeout(dev) == dev.timeout

\* Device::set_timeout and Device::timeout hand over to the transport
DeviceSetTimeout(dev, tmo) == UsbSetTimeout(dev, tmo)
DeviceTimeout(dev) == UsbTimeout(dev)

\* a clear_halt that goes on to the write endpoint whatever the first answers
ClearHalt_Both(dev, rc, wc) ==
    LET read_clear  == Step("clear_halt", dev.endpoints.read_addr, rc)
        write_clear == Step("clear_halt", dev.endpoints.write_addr, wc)
    IN  IF ~rc.ok
        THEN [events |-> <<read_clear, write_clear>>,
              ret |-> Failed(<<"Failed to clear read endpoint halt", rc.err>>)]
        ELSE IF ~wc.ok
        THEN [events |-> <<read_clear, write_clear>>,
              ret |-> Failed(<<"Failed to clear write endpoint halt", wc.err>>)]
        ELSE [events |-> <<read_clear, write_clear>>, ret |-> OkUnit]

\* UsbDevice::clear_halt, given what the two clears answer
ClearHalt(dev, rc, wc) ==
    LET read_clear  == Step("clear_halt", dev.endpoints.read_addr, rc)
        write_clear == Step("clear_halt", dev.endpoints.write_addr, wc)
    IN  IF ~rc.ok
        THEN [events |-> <<read_clear>>,
              ret |-> Failed(<<"Failed to clear read endpoint halt", rc.err>>)]
        ELSE IF ~wc.ok
        THEN [events |-> <<read_clear, write_clear>>,
              ret |-> Failed(<<"Failed to clear write endpoint halt", wc.err>>)]
        ELSE [events |-> <<read_clear, write_clear>>, ret |-> OkUnit]

\* Device::clear
DeviceClear(dev, rc, wc) ==
    LET c == ClearHalt(dev, rc, wc)
    IN  IF ~c.ret.ok
        THEN [events |-> c.events,
              ret |-> Failed(<<"Failed to clear device buffers">> \o c.ret.err)]
        ELSE [events |-> c.events, ret |-> OkUnit]

\* a status read that trusts the buffer whatever was transferred
ReadStatus_AnyLength(dev, o) ==
    LET xfer   == ControlIn("vendor", 0, 0, 0, 1, dev.timeout, o)
        status == SubSeq(o.data \o <<0>>, 1, 1)
    IN  IF ~o.ok
        THEN [events |-> <<xfer>>,
              ret |-> Failed(<<"Failed to read status byte", o.err>>)]
        ELSE [events |-> <<xfer>>, ret |-> OkValue(status[1])]

\* UsbDevice::read_status: a vendor control transfer into a zeroed buffer of
\* one byte
ReadStatus(dev, o) ==
    LET xfer        == ControlIn("vendor", 0, 0, 0, 1, dev.timeout, o)
        status      == SubSeq(o.data \o <<0>>, 1, 1)
        transferred == Len(o.data)
    IN  IF ~o.ok
        THEN [events |-> <<xfer>>,
              ret |-> Failed(<<"Failed to read status byte", o.err>>)]
        ELSE IF transferred # 1
        THEN [events |-> <<xfer>>,
              ret |-> FailedWith(<<"Expected 1 byte status, got {}">>,
                                 <<transferred>>)]
        ELSE [events |-> <<xfer>>, ret |-> OkValue(status[1])]

(***************************************************************************)
(* device/operations/trigger.rs: queries and set-then-verify operations.   *)
(* Text is a sequence of bytes; the replies drawn hold no whitespace       *)
(* outside ASCII.                                                          *)
(***************************************************************************)
IsWhitespace(b) == b \in {9, 10, 11, 12, 13, 32}

\* str::trim
Trim(text) ==
    LET keep == {i \in 1..Len(text) : ~IsWhitespace(text[i])}
    IN  IF keep = {}
        THEN <<>>
        ELSE SubSeq(text, CHOOSE i \in keep : \A j \in keep : i <= j,
                          CHOOSE i \in keep : \A j \in keep : i >= j)

\* trimmed.strip_prefix(prefix).unwrap_or(trimmed)
StripPrefix(text, prefix) ==
    IF Len(text) >= Len(prefix) /\ SubSeq(text, 1, Len(prefix)) = prefix
    THEN SubSeq(text, Len(prefix) + 1, Len(text))
    ELSE text

\* the number written by at most five decimal digits
RECURSIVE DecimalValue(_)
DecimalValue(digits) ==
    IF digits = <<>>
    THEN 0
    ELSE DecimalValue(SubSeq(digits, 1, Len(digits) - 1)) * 10
         + (digits[Len(digits)] - 48)

\* str::parse::<u8>() and str::parse::<u16>(): an optional '+', then one or
\* more decimal digits whose value fits the type
ParseUnsigned(text, max) ==
    LET body    == IF text # <<>> /\ text[1] = 43 THEN Tail(text) ELSE text
        nonzero == {i \in 1..Len(body) : body[i] # 48}
        digits  == IF nonzero = {}
                   THEN <<>>
                   ELSE SubSeq(body, CHOOSE i \in nonzero : \A j \in nonzero : i <= j,
                               Len(body))
    IN  IF text = <<>>
        THEN [ok |-> FALSE, value |-> 0, kind |-> "Empty"]
        ELSE IF body = <<>> \/ \E i \in 1..Len(body) : body[i] \notin 48..57
        THEN [ok |-> FALSE, value |-> 0, kind |-> "InvalidDigit"]
        ELSE IF Len(digits) > 5 \/ DecimalValue(digits) > max
        THEN [ok |-> FALSE, value |-> 0, kind |-> "PosOverflow"]
        ELSE [ok |-> TRUE, value |-> DecimalValue(digits), kind |-> ""]

\* format!("{}", n) of an unsigned number
RECURSIVE FormatU(_)
FormatU(n) ==
    IF n < 10 THEN <<48 + n>> ELSE FormatU(n \div 10) \o <<48 + (n % 10)>>

\* the command prefixes "INIC", "TRS", "TRD", "SPN"; a query appends "?"
INIC == <<73, 78, 73, 67>>
TRS  == <<84, 82, 83>>
TRD  == <<84, 82, 68>>
SPN  == <<83, 80, 78>>

\* the session after a call that left the counter at r.sequence
After(dev, r) == [dev EXCEPT !.sequence = r.sequence]

\* `let v = value;` followed by Body: the value is computed once
With(value, Body(_)) == CHOOSE out \in {Body(v) : v \in {value}} : TRUE

\* self.write(command)?; self.read()
Query(dev, command, wo, rwo, ro) ==
    With(DeviceWrite(dev, command, wo), LAMBDA w :
        IF ~w.ret.ok
        THEN w
        ELSE With(DeviceRead(After(dev, w), rwo, ro), LAMBDA r :
                 [sequence |-> r.sequence, events |-> w.events \o r.events,
                  ret |-> r.ret]))

\* response.trim(), strip_prefix(..).unwrap_or(trimmed), parse(), on the
\* response of a query
ParseReply(q, prefix, max, message) ==
    IF ~q.ret.ok
    THEN q
    ELSE LET response     == q.ret.text
             trimmed      == Trim(response)
             numeric_part == StripPrefix(trimmed, prefix)
         IN  With(ParseUnsigned(numeric_part, max), LAMBDA num :
                 IF ~num.ok
                 THEN [q EXCEPT !.ret = FailedWith(<<message>>, <<response, num.kind>>)]
                 ELSE [q EXCEPT !.ret = OkValue(num.value)])

\* Device::continuously_measure
ContinuouslyMeasure(dev, wo, rwo, ro) ==
    With(Query(dev, INIC \o <<63>>, wo, rwo, ro), LAMBDA response :
    With(ParseReply(response, INIC, 255,
                    "Failed to parse continuously measure value '{}': {}"), LAMBDA q :
        IF ~q.ret.ok
        THEN q
        ELSE [q EXCEPT !.ret = OkValue(IF q.ret.value = 1 THEN 1 ELSE 0)]))

\* Device::trigger_source
TriggerSource(dev, wo, rwo, ro) ==
    With(Query(dev, TRS \o <<63>>, wo, rwo, ro), LAMBDA response :
    With(ParseReply(response, TRS, 255,
                    "Failed to parse trigger source value '{}': {}"), LAMBDA q :
        IF ~q.ret.ok
        THEN q
        ELSE IF q.ret.value \notin 0..3
        THEN [q EXCEPT !.ret =
                 Failed(<<"Failed to convert trigger source value to TriggerSource">>)]
        ELSE q))

\* Device::trigger_delay
TriggerDelay(dev, wo, rwo, ro) == Query(dev, TRD \o <<63>>, wo, rwo, ro)

\* Device::sampling_count
SamplingCount(dev, wo, rwo, ro) ==
    With(Query(dev, SPN \o <<63>>, wo, rwo, ro), LAMBDA response :
        ParseReply(response, SPN, 65535,
                   "Failed to parse sampling count value '{}': {}"))

\* the verification after the set command `s` went out: the query `q`
\* failing, the value read back differing, or neither
Verified(s, q, matches, message) ==
    [sequence |-> q.sequence,
     events   |-> s.events \o q.events,
     ret      |-> IF ~q.ret.ok THEN q.ret
                  ELSE IF ~matches THEN Failed(<<message>>)
                  ELSE OkUnit]

\* Device::continuously_measure_enable
ContinuouslyMeasureEnable(dev, swo, wo, rwo, ro) ==
    With(DeviceWrite(dev, INIC \o <<49>>, swo), LAMBDA s :
        IF ~s.ret.ok
        THEN s
        ELSE With(ContinuouslyMeasure(After(dev, s), wo, rwo, ro), LAMBDA q :
                 Verified(s, q, q.ret.value = 1,
                          "Failed to enable continuously measure")))

\* Device::continuously_measure_disable
ContinuouslyMeasureDisable(dev, swo, wo, rwo, ro) ==
    With(DeviceWrite(dev, INIC \o <<48>>, swo), LAMBDA s :
        IF ~s.ret.ok
        THEN s
        ELSE With(ContinuouslyMeasure(After(dev, s), wo, rwo, ro), LAMBDA q :
                 Verified(s, q, q.ret.value # 1,
                          "Failed to disable continuously measure")))

\* Device::trigger_source_set
TriggerSourceSet(dev, trigger_source, swo, wo, rwo, ro) ==
    With(DeviceWrite(dev, TRS \o FormatU(trigger_source), swo), LAMBDA s :
        IF ~s.ret.ok
        THEN s
        ELSE With(TriggerSource(After(dev, s), wo, rwo, ro), LAMBDA q :
                 Verified(s, q, q.ret.value = trigger_source,
                          "Failed to set trigger source")))

\* Device::trigger_delay_set
TriggerDelaySet(dev, trigger_delay, swo, wo, rwo, ro) ==
    With(DeviceWrite(dev, TRD \o FormatU(trigger_delay), swo), LAMBDA s :
        IF ~s.ret.ok
        THEN s
        ELSE With(TriggerDelay(After(dev, s), wo, rwo, ro), LAMBDA q :
                 Verified(s, q, q.ret.text = FormatU(trigger_delay),
                          "Failed to set trigger delay")))

\* a sampling_count_set that sends the set command again after a mismatch
SamplingCountSet_Resend(dev, sampling_count, swo, wo, rwo, ro) ==
    With(DeviceWrite(dev, SPN \o FormatU(sampling_count), swo), LAMBDA s :
        IF ~s.ret.ok
        THEN s
        ELSE With(SamplingCount(After(dev, s), wo, rwo, ro), LAMBDA q :
             With(Verified(s, q, q.ret.value = sampling_count,
                           "Failed to set sampling count"), LAMBDA v :
                 IF q.ret.ok /\ ~v.ret.ok
                 THEN With(DeviceWrite(After(dev, q),
                                       SPN \o FormatU(sampling_count), swo),
                           LAMBDA again :
                               [sequence |-> again.sequence,
                                events |-> v.events \o again.events,
                                ret |-> v.ret])
                 ELSE v)))

\* Device::sampling_count_set
SamplingCountSet(dev, sampling_count, swo, wo, rwo, ro) ==
    With(DeviceWrite(dev, SPN \o FormatU(sampling_count), swo), LAMBDA s :
        IF ~s.ret.ok
        THEN s
        ELSE With(SamplingCount(After(dev, s), wo, rwo, ro), LAMBDA q :
                 Verified(s, q, q.ret.value = sampling_count,
                          "Failed to set sampling count")))

(***************************************************************************)
(* The environment of open and drop: the physical device, the host's       *)
(* answers, and the callers that open and drop sessions.                   *)
(***************************************************************************)
\* the endpoint descriptors an interface may list: two inbound and two
\* outbound addresses, each of any transfer type
EndpointDescriptors ==
    [address : {129, 130, 2, 3},
     type : {"Control", "Isochronous", "Bulk", "Interrupt"}]

ConfigOk(eps) == [config |-> "ok", err |-> "", eps |-> eps]

\* a configuration that cannot be read, one without interfaces, and one
\* whose first interface has no alternate setting
ConfigFailures ==
    {[config |-> "error", err |-> e, eps |-> <<>>] : e \in {"NotFound"}}
    \cup {[config |-> c, err |-> "", eps |-> <<>>] : c \in {"no_interfaces", "no_descriptors"}}

\* the devices sessions are opened on: two with an endpoint of each direction,
\* one listing no outbound endpoint, one whose configuration cannot be read
DeviceDescriptors ==
    { ConfigOk(<<[address |-> 129, type |-> "Bulk"], [address |-> 2, type |-> "Interrupt"]>>),
      ConfigOk(<<[address |-> 129, type |-> "Interrupt"], [address |-> 2, type |-> "Bulk"]>>),
      ConfigOk(<<[address |-> 129, type |-> "Bulk"]>>),
      [config |-> "error", err |-> "NotFound", eps |-> <<>>] }

\* a claim that succeeds whoever holds the interface
ClaimOutcomes_Shared(isClaimed) == WriteOutcomes

\* claim_interface(0): the host refuses while another handle holds the
\* interface; otherwise it answers or fails
ClaimOutcomes(isClaimed) ==
    IF isClaimed THEN {[ok |-> FALSE, err |-> "Busy"]} ELSE WriteOutcomes

\* the answers to an initialisation control transfer
InitOutcomes ==
    {[ok |-> TRUE, data |-> <<>>, err |-> ""]}
    \cup {[ok |-> FALSE, data |-> <<>>, err |-> e] : e \in TransferErrors}

\* no session exists and nobody holds the interface
NoSession ==
    /\ sequence = NoValue
    /\ endpoints = NoEndpoints
    /\ timeout = 0
    /\ call = NoCall
    /\ events = <<>>
    /\ result = NoResult
    /\ claimed = FALSE
    /\ live = 0
    /\ opens = 0
    /\ sent = NoValue

OpenInit ==
    /\ descriptors \in DeviceDescriptors
    /\ NoSession

\* a call of UsbDevice::open or of Device::open; a session of the bare
\* transport carries no sequence counter.  Opens that can succeed are
\* counted up to MaxOpens.
Open ==
    /\ opens < MaxOpens \/ claimed
    /\ \E via \in {"UsbDevice::open", "Device::open"}, oo \in WriteOutcomes :
       \E co \in (IF oo.ok THEN ClaimOutcomes(claimed) ELSE {NoRead}) :
       \E vo \in (IF co.ok /\ GetEndpoints(descriptors).ok
                  THEN InitOutcomes ELSE {NoRead}) :
       \E ko \in (IF vo.ok THEN InitOutcomes ELSE {NoRead}) :
       \E ro \in (IF vo # NoRead /\ (~vo.ok \/ ~ko.ok)
                  THEN WriteOutcomes ELSE {NoRead}) :
           LET r == IF via = "Device::open"
                    THEN DeviceOpen(descriptors, claimed, oo, co, vo, ko, ro)
                    ELSE UsbOpen(descriptors, claimed, oo, co, vo, ko, ro)
                         @@ [sequence |-> NoValue]
           IN  /\ call' = Call(via, <<>>, 0)
               /\ events' = r.events
               /\ result' = r.ret
               /\ claimed' = r.claimed
               /\ IF r.ok
                  THEN /\ live' = live + 1
                       /\ opens' = opens + 1
                       /\ endpoints' = r.endpoints
                       /\ timeout' = r.timeout
                       /\ sequence' = r.sequence
                       /\ sent' = r.sequence
                  ELSE UNCHANGED <<live, opens, endpoints, timeout, sequence, sent>>
               /\ UNCHANGED descriptors

\* the live session going out of scope
Drop ==
    /\ live > 0
    /\ \E ro \in WriteOutcomes :
           LET d == IF sequence = NoValue THEN UsbDrop(ro) ELSE DeviceDrop(ro)
           IN  /\ call' = Call(IF sequence = NoValue THEN "UsbDevice::drop"
                                                     ELSE "Device::drop", <<>>, 0)
               /\ events' = d.events
               /\ result' = OkUnit
               /\ claimed' = d.claimed
               /\ live' = live - 1
               /\ endpoints' = NoEndpoints
               /\ timeout' = 0
               /\ sequence' = NoValue
               /\ sent' = NoValue
               /\ UNCHANGED <<descriptors, opens>>

\* what config_descriptor(0) and the interface iterators may yield
DiscoveryInit ==
    /\ \/ descriptors \in ConfigFailures
       \/ \E eps \in SeqsUpTo(EndpointDescriptors, MaxEndpoints) :
              descriptors = ConfigOk(eps)
    /\ NoSession

\* a call of UsbDevice::get_endpoints on the device
CallGetEndpoints ==
    /\ call = NoCall
    /\ LET found == GetEndpoints(descriptors)
       IN  /\ call' = Call("get_endpoints", <<>>, 0)
           /\ endpoints' = found.endpoints
           /\ result' = IF found.ok THEN OkUnit ELSE Failed(found.err)
           /\ UNCHANGED <<sequence, timeout, events, descriptors, claimed, live, opens,
                           sent>>

(***************************************************************************)
(* The environment of a session's other operations: what the caller asks   *)
(* for and what the instrument and the handle answer.                      *)
(***************************************************************************)
\* the timeouts a caller stores, in milliseconds
SessionTimeouts == {250, 5000}

\* plain commands: "" and "INI"
SessionCommands == { <<>>, <<73, 78, 73>> }

\* the numbers a caller sets: sampling counts and trigger delays, and the
\* trigger sources MANUAL and EXTERNAL
SessionNumbers == {1, 100}
TriggerSources == {1, 2}

\* what the instrument may deliver to the read of a query: "100\r\n",
\* "SPN100\r\n" behind a response header, "99\r\n", "1\r\n", "0", "TRS2\r\n",
\* "TRD100\r\n", and nothing
SessionReplies ==
    { <<49, 48, 48, 13, 10>>,
      ResponseHeader(2, ToLeBytes(8)) \o <<83, 80, 78, 49, 48, 48, 13, 10>>,
      <<57, 57, 13, 10>>,
      <<49, 13, 10>>,
      <<48>>,
      <<84, 82, 83, 50, 13, 10>>,
      <<84, 82, 68, 49, 48, 48, 13, 10>>,
      <<>> }

SessionReadOutcomes ==
    {[ok |-> TRUE, data |-> d, err |-> ""] : d \in SessionReplies}
    \cup {[ok |-> FALSE, data |-> <<>>, err |-> e] : e \in TransferErrors}

OkWrite      == [ok |-> TRUE, err |-> ""]
FailedWrites == WriteOutcomes \ {OkWrite}
\* a write the call did not reach
NoWrite      == [ok |-> FALSE, err |-> ""]

\* the outcomes of the transfers a query may start: the command write, the
\* read-request write, the blocking read
QueryOutcomes ==
    {[wo |-> w, rwo |-> NoWrite, ro |-> NoRead] : w \in FailedWrites}
    \cup {[wo |-> OkWrite, rwo |-> w, ro |-> NoRead] : w \in FailedWrites}
    \cup {[wo |-> OkWrite, rwo |-> OkWrite, ro |-> r] : r \in SessionReadOutcomes}

\* the outcomes of the transfers a set-then-verify operation may start: the
\* set command's write, then those of its query
SetOutcomes ==
    {[swo |-> w, wo |-> NoWrite, rwo |-> NoWrite, ro |-> NoRead] : w \in FailedWrites}
    \cup {[swo |-> OkWrite, wo |-> q.wo, rwo |-> q.rwo, ro |-> q.ro] : q \in QueryOutcomes}

\* the answers to the status control transfer: no byte, one byte, a failure
StatusOutcomes ==
    {[ok |-> TRUE, data |-> d, err |-> ""] : d \in {<<>>, <<0>>, <<65>>}}
    \cup {[ok |-> FALSE, data |-> <<>>, err |-> e] : e \in TransferErrors}

\* the sequence byte of the last packet among the transfers `done`, or
\* `before` when they hold no outbound transfer
LastSent(before, done) ==
    LET writes == {i \in 1..Len(done) : done[i].ev = "write"}
    IN  IF writes = {}
        THEN before
        ELSE done[CHOOSE i \in writes : \A j \in writes : i >= j].data[2]

\* a call on the session returned r
Returns(op, command, arg, r) ==
    /\ call' = Call(op, command, arg)
    /\ sequence' = r.sequence
    /\ events' = r.events
    /\ result' = r.ret
    /\ sent' = LastSent(sent, r.events)
    /\ UNCHANGED <<endpoints, timeout, descriptors, claimed, live, opens>>

\* calls of Device::write and Device::read
SessWrite ==
    /\ sequence < MaxSessionSeq
    /\ \E command \in SessionCommands, wo \in WriteOutcomes :
           \E r \in {DeviceWrite(Dev, command, wo)} :
               Returns("write", command, 0, r)
SessRead ==
    /\ sequence < MaxSessionSeq
    /\ \E o \in QueryOutcomes :
           /\ o.wo = OkWrite
           /\ \E r \in {DeviceRead(Dev, o.rwo, o.ro)} :
                  Returns("read", <<>>, 0, r)

\* a call of Device::clear
SessClear ==
    \E rc \in WriteOutcomes :
    \E wc \in (IF rc.ok THEN WriteOutcomes ELSE {NoWrite}) :
        \E r \in {DeviceClear(Dev, rc, wc) @@ [sequence |-> sequence]} :
            Returns("clear", <<>>, 0, r)

\* a call of UsbDevice::read_status
SessReadStatus ==
    \E o \in StatusOutcomes :
        \E r \in {ReadStatus(Dev, o) @@ [sequence |-> sequence]} :
            Returns("read_status", <<>>, 0, r)

\* a call of Device::set_timeout
SessSetTimeout ==
    \E tmo \in SessionTimeouts :
        /\ call' = Call("set_timeout", <<>>, tmo)
        /\ timeout' = DeviceSetTimeout(Dev, tmo).timeout
        /\ sequence' = DeviceSetTimeout(Dev, tmo).sequence
        /\ endpoints' = DeviceSetTimeout(Dev, tmo).endpoints
        /\ events' = <<>>
        /\ result' = OkUnit
        /\ UNCHANGED <<descriptors, claimed, live, opens, sent>>

\* a call of Device::timeout
SessTimeout ==
    /\ call' = Call("timeout", <<>>, 0)
    /\ events' = <<>>
    /\ result' = OkValue(DeviceTimeout(Dev))
    /\ UNCHANGED <<sequence, endpoints, timeout, descriptors, claimed, live, opens,
                    sent>>

\* calls of the queries of trigger.rs
SessContinuouslyMeasure ==
    /\ sequence < MaxSessionSeq
    /\ \E o \in QueryOutcomes :
           \E r \in {ContinuouslyMeasure(Dev, o.wo, o.rwo, o.ro)} :
               Returns("continuously_measure", <<>>, 0, r)
SessTriggerSource ==
    /\ sequence < MaxSessionSeq
    /\ \E o \in QueryOutcomes :
           \E r \in {TriggerSource(Dev, o.wo, o.rwo, o.ro)} :
               Returns("trigger_source", <<>>, 0, r)
SessTriggerDelay ==
    /\ sequence < MaxSessionSeq
    /\ \E o \in QueryOutcomes :
           \E r \in {TriggerDelay(Dev, o.wo, o.rwo, o.ro)} :
               Returns("trigger_delay", <<>>, 0, r)
SessSamplingCount ==
    /\ sequence < MaxSessionSeq
    /\ \E o \in QueryOutcomes :
           \E r \in {SamplingCount(Dev, o.wo, o.rwo, o.ro)} :
               Returns("sampling_count", <<>>, 0, r)

\* calls of the set-then-verify operations of trigger.rs
SessContinuouslyMeasureEnable ==
    /\ sequence < MaxSessionSeq
    /\ \E o \in SetOutcomes :
           \E r \in {ContinuouslyMeasureEnable(Dev, o.swo, o.wo, o.rwo, o.ro)} :
               Returns("continuously_measure_enable", <<>>, 1, r)
SessContinuouslyMeasureDisable ==
    /\ sequence < MaxSessionSeq
    /\ \E o \in SetOutcomes :
           \E r \in {ContinuouslyMeasureDisable(Dev, o.swo, o.wo, o.rwo, o.ro)} :
               Returns("continuously_measure_disable", <<>>, 0, r)
SessTriggerSourceSet ==
    /\ sequence < MaxSessionSeq
    /\ \E n \in TriggerSources, o \in SetOutcomes :
           \E r \in {TriggerSourceSet(Dev, n, o.swo, o.wo, o.rwo, o.ro)} :
               Returns("trigger_source_set", <<>>, n, r)
SessTriggerDelaySet ==
    /\ sequence < MaxSessionSeq
    /\ \E n \in SessionNumbers, o \in SetOutcomes :
           \E r \in {TriggerDelaySet(Dev, n, o.swo, o.wo, o.rwo, o.ro)} :
               Returns("trigger_delay_set", <<>>, n, r)
SessSamplingCountSet ==
    /\ sequence < MaxSessionSeq
    /\ \E n \in SessionNumbers, o \in SetOutcomes :
           \E r \in {SamplingCountSet(Dev, n, o.swo, o.wo, o.rwo, o.ro)} :
               Returns("sampling_count_set", <<>>, n, r)

(***************************************************************************)
(* Specifications                                                          *)
(***************************************************************************)
SeqIdle   == counter = 0 /\ calls = 0 /\ onlyNext = TRUE /\ returned = NoValue
CodecIdle == input = NoInput /\ output = NoOutput
DevIdle   ==
    /\ sequence = 0
    /\ endpoints = NoEndpoints
    /\ timeout = 0
    /\ call = NoCall
    /\ events = <<>>
    /\ result = NoResult
    /\ descriptors = NoDescriptors
    /\ claimed = FALSE
    /\ live = 0
    /\ opens = 0
    /\ sent = NoValue

\* a Device session in use, its counter followed all the way round the
\* cycle; no record of the packets sent is kept
Init == DevInit /\ sent = NoValue /\ SeqIdle /\ CodecIdle
Next ==
    \/ DevWrite /\ UNCHANGED <<seqVars, codecVars>>
    \/ DevRead /\ UNCHANGED <<seqVars, codecVars>>
Spec == Init /\ [][Next]_vars

\* a SequenceCounter in use
SeqInit == SeqNew /\ CodecIdle /\ DevIdle
SeqStep ==
    \/ SeqNext /\ UNCHANGED <<codecVars, devVars>>
    \/ SeqIncrement /\ UNCHANGED <<codecVars, devVars>>
SeqSpec == SeqInit /\ [][SeqStep]_vars

\* one call of a codec function on each of its inputs
CodecStart == CodecInit /\ SeqIdle /\ DevIdle
CodecStep ==
    \/ CallEncodeWrite /\ UNCHANGED <<seqVars, devVars>>
    \/ CallEncodeRead /\ UNCHANGED <<seqVars, devVars>>
    \/ CallDecodeRead /\ UNCHANGED <<seqVars, devVars>>
CodecSpec == CodecStart /\ [][CodecStep]_vars

\* a session whose every operation is in use
SessionStart == DevInit /\ sent = 0 /\ SeqIdle /\ CodecIdle
SessionNext ==
    \/ SessWrite /\ UNCHANGED <<seqVars, codecVars>>
    \/ SessRead /\ UNCHANGED <<seqVars, codecVars>>
    \/ SessClear /\ UNCHANGED <<seqVars, codecVars>>
    \/ SessReadStatus /\ UNCHANGED <<seqVars, codecVars>>
    \/ SessSetTimeout /\ UNCHANGED <<seqVars, codecVars>>
    \/ SessTimeout /\ UNCHANGED <<seqVars, codecVars>>
    \/ SessContinuouslyMeasure /\ UNCHANGED <<seqVars, codecVars>>
    \/ SessTriggerSource /\ UNCHANGED <<seqVars, codecVars>>
    \/ SessTriggerDelay /\ UNCHANGED <<seqVars, codecVars>>
    \/ SessSamplingCount /\ UNCHANGED <<seqVars, codecVars>>
    \/ SessContinuouslyMeasureEnable /\ UNCHANGED <<seqVars, codecVars>>
    \/ SessContinuouslyMeasureDisable /\ UNCHANGED <<seqVars, codecVars>>
    \/ SessTriggerSourceSet /\ UNCHANGED <<seqVars, codecVars>>
    \/ SessTriggerDelaySet /\ UNCHANGED <<seqVars, codecVars>>
    \/ SessSamplingCountSet /\ UNCHANGED <<seqVars, codecVars>>
SessionSpec == SessionStart /\ [][SessionNext]_vars

\* sessions opened on a device and dropped
OpenStart == OpenInit /\ SeqIdle /\ CodecIdle
OpenNext ==
    \/ Open /\ UNCHANGED <<seqVars, codecVars>>
    \/ Drop /\ UNCHANGED <<seqVars, codecVars>>
OpenSpec == OpenStart /\ [][OpenNext]_vars

\* a device opened as a Device, used and dropped, and opened again
InSession == live = 1 /\ sequence # NoValue
LifeStart == OpenInit /\ SeqIdle /\ CodecIdle
LifeNext ==
    \/ Open /\ UNCHANGED <<seqVars, codecVars>>
    \/ Drop /\ UNCHANGED <<seqVars, codecVars>>
    \/ InSession /\ SessWrite /\ UNCHANGED <<seqVars, codecVars>>
    \/ InSession /\ SessRead /\ UNCHANGED <<seqVars, codecVars>>
    \/ InSession /\ SessClear /\ UNCHANGED <<seqVars, codecVars>>
    \/ InSession /\ SessSetTimeout /\ UNCHANGED <<seqVars, codecVars>>
    \/ InSession /\ SessTimeout /\ UNCHANGED <<seqVars, codecVars>>
LifeSpec == LifeStart /\ [][LifeNext]_vars

\* endpoint discovery on each configuration
DiscoveryStart == DiscoveryInit /\ SeqIdle /\ CodecIdle
DiscoveryNext == CallGetEndpoints /\ UNCHANGED <<seqVars, codecVars>>
DiscoverySpec == DiscoveryStart /\ [][DiscoveryNext]_vars

(***************************************************************************)
(* Properties                                                              *)
(***************************************************************************)
\* `out` is `slice` with its maximal trailing run of CR / LF bytes removed
IsStrippedOf(out, slice) ==
    /\ Len(out) <= Len(slice)
    /\ SubSeq(slice, 1, Len(out)) = out
    /\ (out = <<>> \/ out[Len(out)] \notin {13, 10})
    /\ \A i \in (Len(out) + 1)..Len(slice) : slice[i] \in {13, 10}

\* the successor of a sequence value in the cycle 1, 2, ..., 255, 1, ...
CycleSuccessor(s) == (s % 255) + 1

\* C1: from a freshly constructed SequenceCounter, the k-th call to next()
\* (k >= 1, no other call in between) returns ((k-1) mod 255) + 1.
C1_KthNext ==
    (onlyNext /\ calls >= 1) => returned = ((calls - 1) % 255) + 1

\* the call after the one that returned 255 has returned 1
C1_Witness == onlyNext /\ calls = 256 /\ returned = 1

\* C2: under any interleaving of next() and increment(), next() never
\* returns 0, the stored counter is never 0 once a call has been made, and an
\* increment() step changes the stored counter exactly as next() would.
C2_NeverZero ==
    /\ [](/\ returned # NoValue => returned \in 1..255
          /\ calls >= 1 => counter \in 1..255)
    /\ [][(calls' = calls + 1 /\ returned' = NoValue)
            => counter' = NextValue(counter)]_vars

\* an increment() has just wrapped the counter from 255 to 1
C2_Witness == ~onlyNext /\ calls >= 256 /\ counter = 1 /\ returned = NoValue

\* C3: for a command of 1..=64 bytes and any sequence byte, encode_write
\* succeeds with 12 + A bytes, A = len + 1 rounded up to a multiple of 4;
\* bytes 4..7 hold A little-endian; the command follows the header, then
\* 0x0A, then zeros to the end.
C3_WriteLayout ==
    (/\ input.fn = "encode_write"
     /\ Len(input.bytes) \in 1..64
     /\ output.done)
    => LET n == Len(input.bytes)
           A == 4 * ((n + 1 + 3) \div 4)
           b == output.bytes
       IN  /\ output.ok
           /\ Len(b) = 12 + A
           /\ \A i \in 5..8 : b[i] \in 0..255
           /\ b[5] + 256 * b[6] + 65536 * b[7] + 16777216 * b[8] = A
           /\ SubSeq(b, 13, 12 + n) = input.bytes
           /\ b[12 + n + 1] = 10
           /\ \A i \in (12 + n + 2)..Len(b) : b[i] = 0

\* a 62-byte command has been framed with two bytes of zero padding
C3_Witness ==
    /\ input.fn = "encode_write"
    /\ Len(input.bytes) = 62
    /\ output.done /\ output.ok
    /\ Len(output.bytes) = 76

\* C4: encode_write returns an error and no packet exactly when the command
\* is empty or longer than 64 bytes, for every sequence value.
C4_RejectsExactly ==
    (input.fn = "encode_write" /\ output.done)
    => /\ ~output.ok <=> (Len(input.bytes) = 0 \/ Len(input.bytes) > 64)
       /\ ~output.ok => (output.bytes = <<>> /\ output.err # "")
       /\ output.ok => (output.bytes # <<>> /\ output.err = "")

\* a command of 65 bytes has been rejected
C4_Witness ==
    /\ input.fn = "encode_write"
    /\ Len(input.bytes) = 65
    /\ output.done /\ ~output.ok

\* C5: the first four bytes of an encoded packet are [opcode, s, 255 - s, 0],
\* opcode 1 for encode_write and 2 for encode_read; bytes 8..11 are [1,0,0,0]
\* for a write and [0,0,0,0] for a read request; "*RST" with s = 5 starts
\* [0x01,0x05,0xFA,0x00], has length field 8 and total size 20.
C5_Header ==
    /\ (input.fn = "encode_write" /\ output.done /\ output.ok)
        => /\ SubSeq(output.bytes, 1, 4) = <<1, input.seq, 255 - input.seq, 0>>
           /\ SubSeq(output.bytes, 9, 12) = <<1, 0, 0, 0>>
    /\ (input.fn = "encode_read" /\ output.done)
        => /\ SubSeq(output.bytes, 1, 4) = <<2, input.seq, 255 - input.seq, 0>>
           /\ SubSeq(output.bytes, 9, 12) = <<0, 0, 0, 0>>
    /\ (input = EncodeWriteInput(<<42, 82, 83, 84>>, 5) /\ output.done)
        => /\ SubSeq(output.bytes, 1, 8) = <<1, 5, 250, 0, 8, 0, 0, 0>>
           /\ Len(output.bytes) = 20

\* "*RST" has been framed with sequence 5
C5_Witness ==
    /\ input = EncodeWriteInput(<<42, 82, 83, 84>>, 5)
    /\ output.done /\ output.ok

\* C6: for every sequence byte encode_read returns exactly 16 bytes: opcode
\* 2, length field 4, a zero suffix and four zero payload bytes.
C6_ReadRequest ==
    (input.fn = "encode_read" /\ output.done)
    => /\ output.ok
       /\ Len(output.bytes) = 16
       /\ output.bytes[1] = 2
       /\ SubSeq(output.bytes, 5, 8) = <<4, 0, 0, 0>>
       /\ \A i \in 9..16 : output.bytes[i] = 0

\* the read request for sequence 255 has been encoded
C6_Witness == input = EncodeReadInput(255) /\ output.done

\* the payload size decode_read is to select behind a 12-byte header: the
\* declared length D when 0 < D < R, the remainder R otherwise
ExpectedSize(buffer) ==
    LET R  == Len(buffer) - 12
        Dl == buffer[5] + 256 * buffer[6]
    IN  IF buffer[7] = 0 /\ buffer[8] = 0 /\ Dl > 0 /\ Dl < R THEN Dl ELSE R

\* C7: for a buffer of at least 12 bytes starting with 0x02, decode_read
\* takes the payload from offset 12 with size R when D = 0 or D >= R and size
\* D when 0 < D < R, then removes trailing CR/LF; D = 2 over "4.2\r\n"
\* yields "4.".
C7_Framed ==
    /\ (/\ input.fn = "decode_read"
        /\ Len(input.bytes) >= 12
        /\ input.bytes[1] = 2
        /\ output.done)
        => /\ output.ok
           /\ IsStrippedOf(output.bytes,
                           SubSeq(input.bytes, 13, 12 + ExpectedSize(input.bytes)))
    /\ (input = DecodeReadInput(ExampleBuffer) /\ output.done)
        => output.bytes = <<52, 46>>

\* a declared length strictly inside the remainder has cut the payload
C7_Witness ==
    /\ input = DecodeReadInput(ExampleBuffer)
    /\ output.done
    /\ output.bytes = <<52, 46>>

\* C8: a buffer shorter than 12 bytes, or not starting with 0x02, decodes to
\* the whole buffer from offset 0 with only its trailing CR/LF removed; the
\* empty buffer decodes to the empty result without error.
C8_Raw ==
    (/\ input.fn = "decode_read"
     /\ (Len(input.bytes) < 12 \/ input.bytes[1] # 2)
     /\ output.done)
    => /\ output.ok
       /\ IsStrippedOf(output.bytes, input.bytes)
       /\ input.bytes = <<>> => output.bytes = <<>>

\* a buffer of header length and more that does not start with 0x02 came
\* back whole, its header and length field included
C8_Witness ==
    /\ input.fn = "decode_read"
    /\ Len(input.bytes) = 16
    /\ input.bytes[1] # 2
    /\ SubSeq(input.bytes, 5, 8) = <<2, 0, 0, 0>>
    /\ output.done
    /\ output.bytes = input.bytes

\* the transfers of the given kind among the events of the last call
EventsOf(kind) == {i \in 1..Len(events) : events[i].ev = kind}

\* C9: Device write frames the command with the next sequence value and
\* hands exactly that packet to exactly one transport write; when encoding
\* fails no transport write happens and the error is returned; when the
\* transport write fails that failure is returned.
C9_DeviceWrite ==
    call.op = "write"
    => LET n == Len(call.command)
       IN  IF n = 0 \/ n > 64
           THEN /\ ~result.ok
                /\ result.err[1] = "Failed to encode write packet"
                /\ EventsOf("write") = {}
                /\ EventsOf("read") = {}
           ELSE /\ EventsOf("write") = {1}
                /\ EventsOf("read") = {}
                /\ events[1].data
                     = EncodeWrite(call.command, CycleSuccessor(call.seq0)).bytes
                /\ events[1].data[2] = sequence
                /\ result.ok <=> events[1].ok
                /\ ~events[1].ok
                     => /\ result.err[1] = "Failed to write command to current device"
                        /\ result.err[Len(result.err)] = events[1].err

\* a framed command went out once and the transfer failed
C9_Witness ==
    /\ call.op = "write"
    /\ call.seq0 = 255
    /\ Len(events) = 1
    /\ events[1].ev = "write"
    /\ events[1].err = "Timeout"
    /\ ~result.ok

\* C10: Device read sends a read request carrying the next sequence value,
\* pauses, makes one blocking read into a 128-byte buffer, decodes the bytes
\* received and converts them to text, stopping at the first failure: no
\* blocking read after a failed request, and an error instead of text when
\* the decoded bytes are not valid text.
C10_DeviceRead ==
    call.op = "read"
    => /\ Len(events) >= 1
       /\ events[1].ev = "write"
       /\ events[1].data = EncodeRead(CycleSuccessor(call.seq0))
       /\ IF ~events[1].ok
          THEN /\ Len(events) = 1
               /\ ~result.ok
               /\ result.err[1] = "Failed to send read request"
          ELSE /\ Len(events) = 4
               /\ events[2].ev = "sleep"
               /\ events[3] = Sleep(10)
               /\ events[4].ev = "read"
               /\ events[4].cap = 128
               /\ IF ~events[4].ok
                  THEN /\ ~result.ok
                       /\ result.err[1] = "Failed to read from device"
                  ELSE LET decoded == DecodeRead(events[4].data).bytes
                       IN  IF Utf8Valid(decoded)
                           THEN result = OkText(decoded)
                           ELSE /\ ~result.ok
                                /\ result.err[1]
                                     = "Response contains invalid UTF-8 character"

\* a reply was received and decoded, and was not valid text
C10_Witness ==
    /\ call.op = "read"
    /\ Len(events) = 4
    /\ events[4].ok
    /\ events[4].data = <<255, 13, 10>>
    /\ ~result.ok


(***************************************************************************)
(* Opening and dropping sessions                                           *)
(***************************************************************************)
IsOpenCall == call.op \in {"UsbDevice::open", "Device::open"}
IsDropCall == call.op \in {"UsbDevice::drop", "Device::drop"}

\* the steps of a successful open, in order
OpenSteps == <<"open", "claim", "discover", "control", "control", "sleep">>

\* event i is the vendor request 0xF5, value 0, index 0, into 2 bytes
IsVendorInit(e) ==
    /\ e.ev = "control" /\ e.kind = "vendor" /\ e.addr = 245
    /\ e.value = 0 /\ e.index = 0 /\ e.cap = 2
\* event i is the class request 0xA0, value 1, index 0, into 1 byte
IsClassInit(e) ==
    /\ e.ev = "control" /\ e.kind = "class" /\ e.addr = 160
    /\ e.value = 1 /\ e.index = 0 /\ e.cap = 1

\* the first k steps of open were taken in order, with the documented
\* control transfers
OpenPrefix(k) ==
    /\ Len(events) >= k
    /\ \A i \in 1..k : events[i].ev = OpenSteps[i]
    /\ k >= 4 => IsVendorInit(events[4])
    /\ k >= 5 => IsClassInit(events[5])
    /\ k >= 6 => events[6].dur = 100

\* C11: an open performs, in this order, the handle open, the claim of
\* interface 0, endpoint discovery, the vendor control transfer (request 0xF5,
\* value 0, index 0, 2 bytes), the class control transfer (request 0xA0,
\* value 1, index 0, 1 byte) and the settle pause, and then returns the
\* session; when a step fails, open returns an error, creates no session and
\* takes none of the later steps (only the handle's clean-up follows), so the
\* class transfer is never sent after a failed vendor transfer.
C11_OpenOrder ==
    /\ [](IsOpenCall =>
            IF result.ok
            THEN /\ Len(events) = 6
                 /\ OpenPrefix(6)
                 /\ \A i \in 1..6 : events[i].ok
                 /\ live >= 1
            ELSE \E k \in 1..5 :
                    /\ OpenPrefix(k)
                    /\ \A i \in 1..(k - 1) : events[i].ok
                    /\ ~events[k].ok
                    /\ \A i \in (k + 1)..Len(events) :
                           events[i].ev \in {"release", "close"})
    /\ [][IsOpenCall' =>
            IF result'.ok
            THEN live' = live + 1 /\ opens' = opens + 1
            ELSE live' = live /\ opens' = opens
                 /\ UNCHANGED <<sequence, endpoints, timeout>>]_vars

\* an open stopped by a failed vendor transfer
C11_Witness ==
    /\ IsOpenCall
    /\ ~result.ok
    /\ Len(events) >= 4
    /\ events[4].ev = "control"
    /\ ~events[4].ok

\* the last open got past a successful claim of interface 0
ClaimSucceeded ==
    /\ IsOpenCall
    /\ Len(events) >= 2
    /\ events[2].ev = "claim"
    /\ events[2].ok

C13_DropReleasesOnce ==
    /\ [](IsDropCall =>
            /\ Cardinality({i \in 1..Len(events) : events[i].ev = "release"}) = 1
            /\ events[1].ev = "release"
            /\ events[1].addr = 0
            /\ result = OkUnit
            /\ events[Len(events)].ev = "close"
            /\ ~claimed)
    /\ [][IsDropCall' => live' = live - 1]_vars

\* a Device dropped while the release of its interface failed
C13_Witness ==
    /\ call.op = "Device::drop"
    /\ events[1].ev = "release"
    /\ ~events[1].ok
    /\ live = 0

InboundCandidates ==
    {i \in 1..Len(descriptors.eps) :
        /\ descriptors.eps[i].type \in {"Bulk", "Interrupt"}
        /\ descriptors.eps[i].address >= 128}
OutboundCandidates ==
    {i \in 1..Len(descriptors.eps) :
        /\ descriptors.eps[i].type \in {"Bulk", "Interrupt"}
        /\ descriptors.eps[i].address < 128}
First(S) == CHOOSE i \in S : \A j \in S : i <= j

\* C15: endpoint discovery looks only at bulk and interrupt endpoints; it
\* selects the first inbound one as the read endpoint and the first outbound
\* one as the write endpoint, whatever follows them; it fails with the
\* no-read-endpoint error when there is no inbound candidate, and with the
\* no-write-endpoint error when there is an inbound but no outbound candidate.
C15_Discovery ==
    (call.op = "get_endpoints" /\ descriptors.config = "ok") =>
        IF InboundCandidates = {}
        THEN result = Failed(<<"No suitable READ endpoint found">>)
        ELSE IF OutboundCandidates = {}
        THEN result = Failed(<<"No suitable WRITE endpoint found">>)
        ELSE /\ result.ok
             /\ endpoints =
                  [read_addr  |-> descriptors.eps[First(InboundCandidates)].address,
                   read_type  |-> descriptors.eps[First(InboundCandidates)].type,
                   write_addr |-> descriptors.eps[First(OutboundCandidates)].address,
                   write_type |-> descriptors.eps[First(OutboundCandidates)].type]

\* discovery succeeded on an interface listing two inbound candidates
C15_Witness ==
    /\ call.op = "get_endpoints"
    /\ result.ok
    /\ Cardinality(InboundCandidates) >= 2
    /\ endpoints.read_addr = descriptors.eps[1].address

(***************************************************************************)
(* The operations of an opened session                                     *)
(***************************************************************************)
IsClearOf(e, addr) == e.ev = "clear_halt" /\ e.addr = addr

\* C16: clearing halts clears the read endpoint first and the write endpoint
\* second and succeeds only when both clears succeed; when the read clear
\* fails, the failure names the read endpoint and the write clear is not
\* attempted; when only the write clear fails, the failure names the write
\* endpoint; Device::clear reports that same outcome, success for success
\* and the transport's failure (under its own context line) for failure.
C16_ClearHalt ==
    call.op = "clear" =>
        /\ Len(events) \in {1, 2}
        /\ IsClearOf(events[1], endpoints.read_addr)
        /\ result.ok <=> (Len(events) = 2 /\ events[1].ok /\ events[2].ok)
        /\ ~events[1].ok =>
              /\ Len(events) = 1
              /\ result.err = <<"Failed to clear device buffers",
                                "Failed to clear read endpoint halt",
                                events[1].err>>
        /\ events[1].ok =>
              /\ Len(events) = 2
              /\ IsClearOf(events[2], endpoints.write_addr)
              /\ ~events[2].ok =>
                    result.err = <<"Failed to clear device buffers",
                                   "Failed to clear write endpoint halt",
                                   events[2].err>>

\* a clear whose read-endpoint clear went through and whose write-endpoint
\* clear failed
C16_Witness ==
    /\ call.op = "clear"
    /\ Len(events) = 2
    /\ events[1].ok
    /\ ~events[2].ok
    /\ ~result.ok

\* C17: the status read returns a byte exactly when its control transfer
\* succeeds and delivers exactly one byte, and then it is the byte delivered;
\* a successful transfer of any other length (zero included) fails with the
\* unexpected-length error carrying that length, and a failed transfer fails
\* with the status-read error; the transfer is the vendor request 0 into a
\* buffer of one byte.
C17_ReadStatus ==
    call.op = "read_status" =>
        /\ Len(events) = 1
        /\ events[1].ev = "control" /\ events[1].kind = "vendor"
        /\ events[1].addr = 0 /\ events[1].cap = 1
        /\ result.ok <=> (events[1].ok /\ Len(events[1].data) = 1)
        /\ result.ok => result.value = events[1].data[1]
        /\ (events[1].ok /\ Len(events[1].data) # 1) =>
              /\ result.err = <<"Expected 1 byte status, got {}">>
              /\ result.args = <<Len(events[1].data)>>
        /\ ~events[1].ok =>
              result.err = <<"Failed to read status byte", events[1].err>>

\* a status read whose transfer succeeded without delivering a byte
C17_Witness ==
    /\ call.op = "read_status"
    /\ events[1].ok
    /\ events[1].data = <<>>
    /\ ~result.ok

IsTransfer(e) == e.ev \in {"write", "read", "control"}

\* C18: a freshly opened session holds a timeout of 5 seconds; the stored
\* timeout changes only in a set_timeout call, which stores its argument and
\* touches nothing else of the session; every blocking transfer a call makes
\* (write, read, status read) is given the timeout that was stored when the
\* call started; timeout() returns the stored value and changes nothing.
C18_Timeout ==
    /\ timeout = 5000
    /\ [][/\ \A i \in 1..Len(events') :
                IsTransfer(events'[i]) => events'[i].dur = timeout
          /\ IF call'.op = "set_timeout"
             THEN /\ timeout' = call'.arg
                  /\ events' = <<>>
                  /\ UNCHANGED <<sequence, endpoints, claimed, live>>
             ELSE timeout' = timeout
          /\ call'.op = "timeout" =>
                /\ result' = OkValue(timeout)
                /\ events' = <<>>
                /\ UNCHANGED <<sequence, endpoints, claimed, live>>]_vars

\* a query made after set_timeout stored 250 ms: its command write and its
\* blocking read were both given 250 ms
C18_Witness ==
    /\ timeout = 250
    /\ Len(events) >= 1
    /\ events[Len(events)].ev = "read"
    /\ events[Len(events)].dur = 250
    /\ events[1].ev = "write"
    /\ events[1].dur = 250

\* a sampling_count_set(100) all of whose transfers went through: the set
\* command, the query, the read request, the blocking read
SetSamplingCount100 ==
    /\ call.op = "sampling_count_set"
    /\ call.arg = 100
    /\ Len(events) = 8
    /\ events[8].ev = "read"
    /\ events[8].ok

\* C19: setting the sampling count to 100 sends the set command "SPN100",
\* then the query "SPN?", and compares the value read back: reading back 100
\* succeeds; reading back 99 fails with a verification error that names the
\* sampling count and carries the expected value 100 and the actual value 99.
C19_VerificationError ==
    SetSamplingCount100 =>
        /\ events[1].ev = "write"
        /\ events[1].data
             = EncodeWrite(<<83, 80, 78, 49, 48, 48>>,
                           CycleSuccessor(call.seq0)).bytes
        /\ events[3].ev = "write"
        /\ events[3].data
             = EncodeWrite(<<83, 80, 78, 63>>,
                           CycleSuccessor(CycleSuccessor(call.seq0))).bytes
        /\ events[8].data = <<49, 48, 48, 13, 10>> => result.ok
        /\ events[8].data = <<57, 57, 13, 10>> =>
              /\ ~result.ok
              /\ result.err = <<"Failed to set sampling count">>
              /\ result.args = <<100, 99>>

\* the decimal digits of the numbers callers set
Decimal(n) == IF n = 100 THEN <<49, 48, 48>> ELSE <<48 + n>>

SetOps ==
    {"continuously_measure_enable", "continuously_measure_disable",
     "trigger_source_set", "trigger_delay_set", "sampling_count_set"}

\* the set command and the query command of the set-then-verify call made:
\* "INIC1" / "INIC0" / "TRS<n>" / "TRD<n>" / "SPN<n>", and "INIC?" / "TRS?" /
\* "TRD?" / "SPN?"
SetCommand ==
    CASE call.op = "continuously_measure_enable"  -> <<73, 78, 73, 67, 49>>
      [] call.op = "continuously_measure_disable" -> <<73, 78, 73, 67, 48>>
      [] call.op = "trigger_source_set" -> <<84, 82, 83>> \o Decimal(call.arg)
      [] call.op = "trigger_delay_set"  -> <<84, 82, 68>> \o Decimal(call.arg)
      [] call.op = "sampling_count_set" -> <<83, 80, 78>> \o Decimal(call.arg)
SetQuery ==
    CASE call.op \in {"continuously_measure_enable",
                      "continuously_measure_disable"} -> <<73, 78, 73, 67, 63>>
      [] call.op = "trigger_source_set" -> <<84, 82, 83, 63>>
      [] call.op = "trigger_delay_set"  -> <<84, 82, 68, 63>>
      [] call.op = "sampling_count_set" -> <<83, 80, 78, 63>>

\* the outbound transfers of the last call that carried this command, and
\* those that carried a read request
WritesOf(command) ==
    {i \in EventsOf("write") :
        events[i].data = EncodeWrite(command, events[i].data[2]).bytes}
ReadRequests ==
    {i \in EventsOf("write") : events[i].data = EncodeRead(events[i].data[2])}

\* C20: no operation retries.  A Device write makes at most one transport
\* write; a Device read at most one read-request write and one blocking read;
\* a set-then-verify operation sends its set command exactly once and its
\* query at most once (one query write, one read request, one blocking read);
\* a transfer that fails is the last thing its call does, and a call that
\* fails on a mismatch ends with the read that showed it: nothing is sent
\* again.
C20_NoRetry ==
    /\ \A i \in 1..Len(events) :
           (IsTransfer(events[i]) /\ ~events[i].ok) => i = Len(events)
    /\ call.op = "write" =>
           /\ Cardinality(EventsOf("write")) <= 1
           /\ EventsOf("read") = {}
    /\ call.op = "read" =>
           /\ Cardinality(EventsOf("write")) <= 1
           /\ EventsOf("write") = ReadRequests
           /\ Cardinality(EventsOf("read")) <= 1
    /\ call.op \in SetOps =>
           /\ WritesOf(SetCommand) = {1}
           /\ Cardinality(WritesOf(SetQuery)) <= 1
           /\ Cardinality(ReadRequests) <= 1
           /\ Cardinality(EventsOf("read")) <= 1
           /\ EventsOf("write") = WritesOf(SetCommand) \cup WritesOf(SetQuery)
                                  \cup ReadRequests
           /\ (~result.ok /\ \A i \in 1..Len(events) : events[i].ok) =>
                  events[Len(events)].ev = "read"

\* a trigger delay was set, queried once and read back different: the call
\* failed after its single read
C20_Witness ==
    /\ call.op = "trigger_delay_set"
    /\ result.err = <<"Failed to set trigger delay">>
    /\ Cardinality(EventsOf("write")) = 3
    /\ events[Len(events)].ev = "read"

(***************************************************************************)
(* decode_read on any buffer                                               *)
(***************************************************************************)
\* the slice decode_read selects from the buffer it was given
SelectedSlice ==
    SubSeq(input.bytes, DataSlice(input.bytes).data_start + 1,
           DataSlice(input.bytes).data_start + DataSlice(input.bytes).data_size)
\* the length of the run of CR and LF bytes that ends the byte string
TrailingRun(bytes) ==
    Cardinality({k \in 1..Len(bytes) :
                    \A i \in (Len(bytes) - k + 1)..Len(bytes) : bytes[i] \in {13, 10}})

\* C23: the result of decode_read never ends in CR or LF, and it is the
\* selected payload slice without its longest trailing run of CR and LF
\* bytes: every other byte of the slice, CR and LF inside it and zero padding
\* included, is kept in its place.
C23_StripsTrailingOnly ==
    (input.fn = "decode_read" /\ output.done) =>
        /\ output.bytes = <<>> \/ output.bytes[Len(output.bytes)] \notin {13, 10}
        /\ Len(output.bytes) = Len(SelectedSlice) - TrailingRun(SelectedSlice)
        /\ \A i \in 1..Len(output.bytes) : output.bytes[i] = SelectedSlice[i]

\* CR, zero, CR, LF came back as CR, zero: the interior CR and the zero kept,
\* the trailing run of two removed
C23_Witness ==
    /\ input = DecodeReadInput(<<13, 0, 13, 10>>)
    /\ output.done
    /\ output.bytes = <<13, 0>>

\* C24: decode_read is total: whatever the buffer and whatever payload length
\* its header declares, the largest u32 included, it returns a result and no
\* error, and the slice it selects lies inside the buffer
\* (data_start + data_size <= len(buffer)).
C24_Total ==
    (input.fn = "decode_read" /\ output.done) =>
        /\ output.ok
        /\ output.err = ""
        /\ DataSlice(input.bytes).data_start >= 0
        /\ DataSlice(input.bytes).data_size >= 0
        /\ DataSlice(input.bytes).data_start + DataSlice(input.bytes).data_size
             <= Len(input.bytes)
        /\ Len(output.bytes) <= DataSlice(input.bytes).data_size

\* decoded without error: a header declaring 4294967295 bytes over a payload
\* of two
C24_Witness ==
    /\ input.fn = "decode_read"
    /\ output.done
    /\ output.ok
    /\ Len(input.bytes) = 14
    /\ input.bytes[1] = 2
    /\ SubSeq(input.bytes, 5, 8) = <<255, 255, 255, 255>>
    /\ output.bytes = SubSeq(input.bytes, 13, 14)
    /\ Len(output.bytes) = 2

\* the blocking read of the last Device read went through
ReadReceived ==
    /\ call.op = "read"
    /\ Len(events) = 4
    /\ events[4].ev = "read"
    /\ events[4].ok

\* C25: the text a Device read returns is decided by the bytes its blocking
\* read transferred and by nothing after them: it is the decoding of exactly
\* those bytes, so it is never longer than they are and the zero tail of the
\* 128-byte buffer is no part of it; a read that transferred no byte returns
\* the empty text as a success.
C25_TransferredOnly ==
    ReadReceived =>
        LET transferred == Len(events[4].data)
            decoded     == DecodeRead(SubSeq(events[4].data, 1, transferred)).bytes
        IN  /\ transferred <= 128
            /\ result.ok => /\ result.text = decoded
                            /\ Len(result.text) <= transferred
            /\ result.ok <=> Utf8Valid(decoded)
            /\ transferred = 0 => result = OkText(<<>>)

\* a read whose transfer succeeded with no byte returned the empty text
C25_Witness ==
    /\ ReadReceived
    /\ events[4].data = <<>>
    /\ result = OkText(<<>>)

(***************************************************************************)
(* Pauses, the sequence values on the wire, and the endpoints of a session *)
(***************************************************************************)
IsPause(e, ms) == e.ev = "sleep" /\ e.dur = ms
Handshake == {i \in EventsOf("control") : events[i].ok}

\* C21, as stated: the pauses are unconditional.  Every transport write of a
\* call is followed by the 20 ms pause before the call goes on or returns,
\* every Device read pauses 10 ms after sending its request, and every open
\* that made both control transfers of the handshake pauses 100 ms after
\* them.
C21_EveryCallPauses ==
    /\ \A i \in EventsOf("write") :
           i < Len(events) /\ IsPause(events[i + 1], 20)
    /\ call.op = "read" => \E i \in 2..Len(events) : IsPause(events[i], 10)
    /\ (IsOpenCall /\ Cardinality(EventsOf("control")) = 2) =>
           IsPause(events[Len(events)], 100)

\* C21, amended: the pauses follow the transfers that succeed, and have fixed
\* lengths whatever the timeout.  A transport write whose transfer succeeds
\* is followed by a pause of 20 ms, and one whose transfer fails is the last
\* thing the call does; a Device read whose request went out pauses 20 ms and
\* then 10 ms before its blocking read; an open whose two control transfers
\* succeed pauses 100 ms and returns the session; no pause has any other
\* length, and the stored timeout has no part in any of them.
C21_PausesOnSuccess ==
    /\ \A i \in EventsOf("write") :
           IF events[i].ok
           THEN i < Len(events) /\ IsPause(events[i + 1], 20)
           ELSE i = Len(events)
    /\ (call.op = "read" /\ events[1].ok) =>
           /\ Len(events) = 4
           /\ IsPause(events[2], 20)
           /\ IsPause(events[3], 10)
           /\ events[4].ev = "read"
    /\ (IsOpenCall /\ Cardinality(Handshake) = 2) =>
           /\ IsPause(events[Len(events)], 100)
           /\ result.ok
    /\ \A i \in EventsOf("sleep") : events[i].dur \in {10, 20, 100}
    /\ \A i \in EventsOf("sleep") : i > 1 /\ events[i - 1].ok

\* a read made after the timeout was set to 250 ms paused 20 ms and 10 ms
\* between its request and its blocking read
C21_Witness ==
    /\ call.op = "read"
    /\ timeout = 250
    /\ Len(events) = 4
    /\ IsPause(events[2], 20)
    /\ IsPause(events[3], 10)
    /\ events[4].ev = "read"

\* C22: over the life of a Device session the packets handed to the transport
\* carry consecutive sequence values in the cycle 1, 2, ..., 255, 1, ...: the
\* first packet after open carries 1 and every later packet carries the
\* successor of the value carried by the packet sent before it, whatever
\* calls were made in between and whether or not they failed.
C22_ConsecutivePackets ==
    [][\A i \in 1..Len(events') :
           events'[i].ev = "write" =>
               events'[i].data[2]
                 = CycleSuccessor(LastSent(sent, SubSeq(events', 1, i - 1)))]_vars

\* the transfer an endpoint of this type is served by
KindOf(type) == IF type = "Interrupt" THEN "interrupt" ELSE "bulk"

\* C28: the endpoints of a session are the ones discovery found when it was
\* opened, and they stay as they are until the session is dropped; every
\* transport write goes to the write endpoint's address, as an interrupt
\* transfer when that endpoint is an interrupt endpoint and as a bulk
\* transfer otherwise, and every transport read comes from the read
\* endpoint's address, its kind chosen the same way.
C28_EndpointsFixed ==
    /\ [](live = 1 => endpoints = GetEndpoints(descriptors).endpoints)
    /\ [][(IsOpenCall' /\ result'.ok) \/ IsDropCall' \/ endpoints' = endpoints]_vars
    /\ [][\A i \in 1..Len(events') :
             /\ events'[i].ev = "write" =>
                    /\ events'[i].addr = endpoints.write_addr
                    /\ events'[i].kind = KindOf(endpoints.write_type)
             /\ events'[i].ev = "read" =>
                    /\ events'[i].addr = endpoints.read_addr
                    /\ events'[i].kind = KindOf(endpoints.read_type)]_vars

\* on the device with a bulk inbound and an interrupt outbound endpoint, a
\* read made after the timeout was changed sent its request by interrupt
\* transfer to endpoint 2 and read by bulk transfer from endpoint 129
C28_Witness ==
    /\ call.op = "read"
    /\ timeout = 250
    /\ endpoints = [read_addr |-> 129, read_type |-> "Bulk",
                    write_addr |-> 2, write_type |-> "Interrupt"]
    /\ Len(events) = 4
    /\ events[1].kind = "interrupt" /\ events[1].addr = 2
    /\ events[4].kind = "bulk" /\ events[4].addr = 129

(***************************************************************************)
(* The counter of a session, and the judgement of a value read back        *)
(***************************************************************************)
\* the counter k steps after s in the cycle 1, 2, ..., 255, 1, ...
Advanced(s, k) == IF k = 0 THEN s ELSE ((s + k - 1) % 255) + 1

\* the operations made of Device writes and reads, and the number of those
\* the call just made went through: each handed one packet to the transport
Composite ==
    SetOps \cup {"continuously_measure", "trigger_source", "trigger_delay",
                 "sampling_count"}
PacketsOf(done) == Cardinality({i \in 1..Len(done) : done[i].ev = "write"})

\* C26: the counter of a session changes only through Device write and
\* Device read, by exactly one step of the cycle for each call, failed calls
\* included; clear, set_timeout and timeout (and the status read) leave it
\* as it is and hand no packet to the transport; an operation made of writes
\* and reads advances it once for each of them, a set-then-verify operation
\* that runs to its end by exactly three.
C26_CounterSteps ==
    [][/\ call'.op \in {"write", "read"} => sequence' = Advanced(sequence, 1)
       /\ call'.op \in {"clear", "set_timeout", "timeout", "read_status"} =>
              /\ sequence' = sequence
              /\ PacketsOf(events') = 0
              /\ sent' = sent
       /\ call'.op \in Composite =>
              /\ PacketsOf(events') \in 1..3
              /\ sequence' = Advanced(sequence, PacketsOf(events'))
       /\ (call'.op \in SetOps
           /\ (result'.ok \/ events'[Len(events')].ev = "read")) =>
              /\ PacketsOf(events') = 3
              /\ sequence' = Advanced(sequence, 3)
       /\ call'.seq0 = sequence]_vars

\* a sampling count was set and verified from a counter at 1, and left the
\* counter at 4
C26_Witness ==
    /\ call.op = "sampling_count_set"
    /\ result.ok
    /\ call.seq0 = 1
    /\ sequence = 4
    /\ sent = 4

\* the value a set-then-verify call meant to store, and the command name its
\* reply may carry in front of the value
Intended ==
    CASE call.op = "continuously_measure_enable"  -> 1
      [] call.op = "continuously_measure_disable" -> 0
      [] OTHER -> call.arg
ReplyPrefix ==
    CASE call.op \in {"continuously_measure_enable",
                      "continuously_measure_disable"} -> <<73, 78, 73, 67>>
      [] call.op = "trigger_source_set" -> <<84, 82, 83>>
      [] call.op = "trigger_delay_set"  -> <<84, 82, 68>>
      [] call.op = "sampling_count_set" -> <<83, 80, 78>>

\* the last call was a set-then-verify operation whose blocking read went
\* through; the number in the text it read back, with or without the
\* command name in front
ReadBack ==
    /\ call.op \in SetOps
    /\ events[Len(events)].ev = "read"
    /\ events[Len(events)].ok
ReplyNumber ==
    ParseUnsigned(StripPrefix(Trim(DecodeRead(events[Len(events)].data).bytes),
                              ReplyPrefix), 65535)

\* C27: every set-then-verify operation judges the value read back the same
\* way: it succeeds exactly when the number in the reply equals the value
\* meant, whether the reply carries the command name in front of it
\* ("SPN100", "TRD100") or the bare number ("100").
C27_SameJudgement ==
    ReadBack => (result.ok <=> (ReplyNumber.ok /\ ReplyNumber.value = Intended))

====
